---- MODULE Spec2Model ----
(***************************************************************************)
(* Model of the ownership-chain cache layer of the multimodal chatbot      *)
(* backend (backend/app/services/storage/redis_cache.py, class RedisCache) *)
(* over the key/value store it talks to.                                   *)
(*                                                                         *)
(* The store is a finite map from keys to serialized payloads.  Every      *)
(* cache operation is an operator from a store (and its arguments) to the  *)
(* store it leaves and the value it returns, composed exactly as the       *)
(* Python methods call one another; one action per public operation        *)
(* applies it to the state.                                                *)
(***************************************************************************)
EXTENDS Integers, Sequences, FiniteSets, TLC

VARIABLES redis, last, nops, inflight, analysis, expires, clock

vars == <<redis, last, nops, inflight, analysis, expires, clock>>

\* the calls in progress in the workers, the analysis request in progress,
\* and the expiry instants and the clock of the store: the state the
\* histories of completed calls within one lifetime leave alone
beside == <<inflight, analysis, expires, clock>>

(***************************************************************************)
(* Bounds of the model.                                                    *)
(***************************************************************************)
\* number of store-changing operations in one history
MaxOps == 2

(***************************************************************************)
(* Python values.                                                          *)
(***************************************************************************)
\* None where a str is expected (Optional[str])
None == "None"
\* None where an object or a list is expected
Nil == [nil |-> TRUE]
\* a list value where None is also possible (Optional[List[str]])
PyList(seq) == [list |-> seq]
\* Python truthiness of an Optional[str]: None and "" are falsy
Falsy(x) == x = None \/ x = ""

UserIds == {"u1", "u2"}
SessionIds == {"s1", "s2"}
MessageIds == {"m1", "m2"}
ArtifactIds == {"a1", "a2"}

(***************************************************************************)
(* Entities (object_models.py).  An artifact object carries its Python     *)
(* class; the class fixes the Literal value of its type field.             *)
(***************************************************************************)
ArtifactClasses == <<"ImageArtifact", "CSVArtifact", "TextArtifact", "CodeArtifact">>

LiteralType(cls) ==
    CASE cls = "ImageArtifact" -> "image"
      [] cls = "CSVArtifact" -> "csv"
      [] cls = "TextArtifact" -> "text"
      [] cls = "CodeArtifact" -> "code"

Artifact(id, cls) ==
    [cls |-> cls, artifactId |-> id, type |-> LiteralType(cls), data |-> "ZGF0YQ==",
     description |-> None]

Message(id, sid, role, content, arts) ==
    [messageId |-> id, sessionId |-> sid, role |-> role, content |-> content,
     artifacts |-> arts]

Session(id, uid, title, msgs, n, upd) ==
    [sessionId |-> id, userId |-> uid, createdAt |-> 0, updatedAt |-> upd,
     title |-> title, messages |-> msgs, numMessages |-> n]

SessionInfo(id, uid, created, upd, title, n, na) ==
    [sessionId |-> id, userId |-> uid, createdAt |-> created, updatedAt |-> upd,
     title |-> title, numMessages |-> n, numArtifacts |-> na]

(***************************************************************************)
(* Entity codec: model_dump_json / model_validate_json /                   *)
(* TypeAdapter(Artifact).validate_json.  JSON keeps the fields and loses   *)
(* the Python class; validation against the Union tries the member classes *)
(* in declaration order and takes the one whose Literal admits the type    *)
(* tag.                                                                    *)
(***************************************************************************)
SeqMap(Op(_), seq) == [i \in 1..Len(seq) |-> Op(seq[i])]

DumpArtifact(a) ==
    [artifactId |-> a.artifactId, type |-> a.type, data |-> a.data,
     description |-> a.description]

\* Faulty variant of FirstMatchingClass: the first member of the Union is taken
\* without looking at the type tag.
FirstClass(type) == ArtifactClasses[1]

FirstMatchingClass(type) ==
    LET hits == {i \in 1..Len(ArtifactClasses) : LiteralType(ArtifactClasses[i]) = type}
    IN  ArtifactClasses[CHOOSE i \in hits : \A j \in hits : i <= j]

ValidateArtifact(raw) ==
    [cls |-> FirstMatchingClass(raw.type), artifactId |-> raw.artifactId,
     type |-> raw.type, data |-> raw.data, description |-> raw.description]

DumpMessage(m) == [m EXCEPT !.artifacts = SeqMap(DumpArtifact, m.artifacts)]

ValidateMessage(raw) == [raw EXCEPT !.artifacts = SeqMap(ValidateArtifact, raw.artifacts)]

DumpSession(s) == [s EXCEPT !.messages = SeqMap(DumpMessage, s.messages)]

ValidateSession(raw) == [raw EXCEPT !.messages = SeqMap(ValidateMessage, raw.messages)]

(***************************************************************************)
(* Key builders and the low-level store helpers.                           *)
(***************************************************************************)
k_artifact(artifact_id) == <<"artifact", artifact_id>>
k_message(message_id) == <<"message", message_id>>
k_session(session_id) == <<"session", session_id>>
k_session_index_by_user(user_id) == <<"session_index:user", user_id>>
k_message_index_by_session(session_id) == <<"message_index:session", session_id>>
k_artifact_index_by_message(message_id) == <<"artifact_index:message", message_id>>

\* self.redis.setex(key, ttl, payload)
_set_json(st, key, payload) ==
    [k \in DOMAIN st \cup {key} |-> IF k = key THEN payload ELSE st[k]]

\* self.redis.get(key) is not None
has_key(st, key) == key \in DOMAIN st

\* self.redis.delete(key): the store left and the number of keys removed
redis_delete(st, key) ==
    [st |-> [k \in DOMAIN st \ {key} |-> st[k]],
     ret |-> IF key \in DOMAIN st THEN 1 ELSE 0]

_validate_ownership(item, key_to_check, owner_id) ==
    IF Falsy(owner_id) THEN TRUE
    ELSE IF key_to_check \notin DOMAIN item THEN FALSE
    ELSE item[key_to_check] = owner_id

(***************************************************************************)
(* Index helpers.  An index payload is the JSON list it holds.             *)
(***************************************************************************)
FirstIndexOf(items, session_id) ==
    CHOOSE i \in 1..Len(items) :
        /\ items[i].sessionId = session_id
        /\ \A j \in 1..(i - 1) : items[j].sessionId # session_id

\* Faulty variant of UpsertInfo: the entry is always appended.
AppendInfo(items, info) == Append(items, info)

\* replace the first entry of the same sessionId, else append
UpsertInfo(items, info) ==
    IF \E i \in 1..Len(items) : items[i].sessionId = info.sessionId
    THEN [items EXCEPT ![FirstIndexOf(items, info.sessionId)] = info]
    ELSE Append(items, info)

_add_session_to_user_index(st, user_id, info) ==
    LET key == k_session_index_by_user(user_id)
        items == IF has_key(st, key) THEN st[key] ELSE <<>>
    IN  _set_json(st, key, UpsertInfo(items, info))

\* Faulty variant of _remove_session_from_user_index: the filtered list is
\* never written back.
remove_session_from_user_index_unsaved(st, user_id, session_id) == st

_remove_session_from_user_index(st, user_id, session_id) ==
    LET key == k_session_index_by_user(user_id)
    IN  IF ~has_key(st, key) THEN st
        ELSE _set_json(st, key, SelectSeq(st[key], LAMBDA i : i.sessionId # session_id))

get_sessions_for_user(st, user_id) ==
    LET key == k_session_index_by_user(user_id)
    IN  IF ~has_key(st, key) THEN Nil ELSE PyList(st[key])

InSeq(x, seq) == \E i \in 1..Len(seq) : seq[i] = x

\* Faulty variant of AppendIfAbsent: the membership test is missing.
AppendAlways(ids, id) == Append(ids, id)

\* if id not in ids: ids.append(id)
AppendIfAbsent(ids, id) == IF InSeq(id, ids) THEN ids ELSE Append(ids, id)

\* [i for i in ids if i != id]
Without(ids, id) == SelectSeq(ids, LAMBDA i : i # id)

_add_message_to_session_index(st, session_id, message_id) ==
    LET key == k_message_index_by_session(session_id)
        ids == IF has_key(st, key) THEN st[key] ELSE <<>>
    IN  _set_json(st, key, AppendIfAbsent(ids, message_id))

_remove_message_from_session_index(st, session_id, message_id) ==
    LET key == k_message_index_by_session(session_id)
    IN  IF ~has_key(st, key) THEN st
        ELSE _set_json(st, key, Without(st[key], message_id))

_add_artifact_to_message_index(st, message_id, artifact_id) ==
    LET key == k_artifact_index_by_message(message_id)
        ids == IF has_key(st, key) THEN st[key] ELSE <<>>
    IN  _set_json(st, key, AppendIfAbsent(ids, artifact_id))

_remove_artifact_from_message_index(st, message_id, artifact_id) ==
    LET key == k_artifact_index_by_message(message_id)
    IN  IF ~has_key(st, key) THEN st
        ELSE _set_json(st, key, Without(st[key], artifact_id))

(***************************************************************************)
(* Reads.                                                                  *)
(***************************************************************************)
get_session(st, session_id, user_id) ==
    IF ~has_key(st, k_session(session_id)) THEN Nil
    ELSE LET res == ValidateSession(st[k_session(session_id)])
         IN  IF ~_validate_ownership(res, "userId", user_id) THEN Nil ELSE res

\* Faulty variant of get_message: the session back-reference is not checked.
get_message_unchecked(st, message_id, session_id) ==
    IF ~has_key(st, k_message(message_id)) THEN Nil
    ELSE ValidateMessage(st[k_message(message_id)])

get_message(st, message_id, session_id) ==
    IF ~has_key(st, k_message(message_id)) THEN Nil
    ELSE LET res == ValidateMessage(st[k_message(message_id)])
         IN  IF ~_validate_ownership(res, "sessionId", session_id) THEN Nil ELSE res

get_message_ids_for_session(st, session_id, user_id) ==
    IF user_id # None /\ get_session(st, session_id, user_id) = Nil THEN Nil
    ELSE IF ~has_key(st, k_message_index_by_session(session_id)) THEN Nil
    ELSE PyList(st[k_message_index_by_session(session_id)])

get_artifact_ids_for_message(st, message_id, session_id) ==
    IF session_id # None /\ get_message(st, message_id, session_id) = Nil THEN Nil
    ELSE IF ~has_key(st, k_artifact_index_by_message(message_id)) THEN Nil
    ELSE PyList(st[k_artifact_index_by_message(message_id)])

get_artifact(st, artifact_id, message_id) ==
    IF ~has_key(st, k_artifact(artifact_id)) THEN Nil
    ELSE LET res == ValidateArtifact(st[k_artifact(artifact_id)])
             art_ids == get_artifact_ids_for_message(st, message_id, None)
         IN  IF message_id # None /\ (art_ids = Nil \/ ~InSeq(artifact_id, art_ids.list))
             THEN Nil
             ELSE res

get_session_with_full_ownership(st, session_id, user_id) ==
    get_session(st, session_id, user_id)

get_message_with_full_ownership(st, message_id, session_id, user_id) ==
    IF get_session(st, session_id, user_id) = Nil THEN Nil
    ELSE get_message(st, message_id, session_id)

get_artifact_with_full_ownership(st, artifact_id, message_id, session_id, user_id) ==
    IF get_message_with_full_ownership(st, message_id, session_id, user_id) = Nil THEN Nil
    ELSE get_artifact(st, artifact_id, message_id)

(***************************************************************************)
(* Writes.                                                                 *)
(***************************************************************************)
save_artifact(st, artifact) ==
    _set_json(st, k_artifact(artifact.artifactId), DumpArtifact(artifact))

\* for art in message.artifacts: save_artifact; _add_artifact_to_message_index
RECURSIVE SaveArtifacts(_, _, _)
SaveArtifacts(st, message_id, arts) ==
    IF arts = <<>> THEN st
    ELSE SaveArtifacts(
             _add_artifact_to_message_index(
                 save_artifact(st, Head(arts)), message_id, Head(arts).artifactId),
             message_id, Tail(arts))

save_message(st, message, cascade) ==
    LET st1 == _set_json(st, k_message(message.messageId), DumpMessage(message))
        st2 == _add_message_to_session_index(st1, message.sessionId, message.messageId)
    IN  IF cascade /\ message.artifacts # <<>>
        THEN SaveArtifacts(st2, message.messageId, message.artifacts)
        ELSE st2

\* Faulty variant of SaveMessages: a message is written with the sessionId it
\* came with.
RECURSIVE SaveMessagesUncorrected(_, _, _)
SaveMessagesUncorrected(st, session_id, msgs) ==
    IF msgs = <<>> THEN st
    ELSE SaveMessagesUncorrected(save_message(st, Head(msgs), TRUE), session_id, Tail(msgs))

\* for msg in session.messages: correct msg.sessionId; save_message(msg, cascade=True)
RECURSIVE SaveMessages(_, _, _)
SaveMessages(st, session_id, msgs) ==
    IF msgs = <<>> THEN st
    ELSE SaveMessages(
             save_message(st, [Head(msgs) EXCEPT !.sessionId = session_id], TRUE),
             session_id, Tail(msgs))

RECURSIVE SumArtifacts(_)
SumArtifacts(msgs) ==
    IF msgs = <<>> THEN 0 ELSE Len(Head(msgs).artifacts) + SumArtifacts(Tail(msgs))

save_session(st, session, cascade) ==
    LET st1 == _set_json(st, k_session(session.sessionId), DumpSession(session))
        info == SessionInfo(session.sessionId, session.userId, session.createdAt,
                            session.updatedAt, session.title, session.numMessages,
                            SumArtifacts(session.messages))
        st2 == IF ~Falsy(session.userId)
               THEN _add_session_to_user_index(st1, session.userId, info)
               ELSE st1
    IN  IF cascade THEN SaveMessages(st2, session.sessionId, session.messages) ELSE st2

(***************************************************************************)
(* Deletes: the store left and the count returned.                         *)
(***************************************************************************)
\* Faulty variant of delete_artifact: the id is taken out of the message's
\* index before the artifact is looked up.
delete_artifact_unlink_first(st, artifact_id, message_id) ==
    LET st1 == IF message_id # None
               THEN _remove_artifact_from_message_index(st, message_id, artifact_id)
               ELSE st
    IN  IF get_artifact(st, artifact_id, message_id) = Nil THEN [st |-> st1, ret |-> 0]
        ELSE redis_delete(st1, k_artifact(artifact_id))

delete_artifact(st, artifact_id, message_id) ==
    IF get_artifact(st, artifact_id, message_id) = Nil THEN [st |-> st, ret |-> 0]
    ELSE LET st1 == IF message_id # None
                    THEN _remove_artifact_from_message_index(st, message_id, artifact_id)
                    ELSE st
         IN  redis_delete(st1, k_artifact(artifact_id))

\* x or []
ListOrEmpty(x) == IF x = Nil THEN <<>> ELSE x.list

\* deleted += int(self.redis.delete(key)), after the deletes that gave r
ThenDeleteKey(r, key) ==
    [st |-> redis_delete(r.st, key).st, ret |-> r.ret + redis_delete(r.st, key).ret]

\* for aid in art_ids: deleted += self.delete_artifact(aid, message_id=message_id)
RECURSIVE DeleteArtifacts(_, _, _), DeleteArtifactsAfter(_, _, _)
DeleteArtifacts(r, art_ids, message_id) ==
    IF art_ids = <<>> THEN r
    ELSE DeleteArtifactsAfter(
             [st |-> delete_artifact(r.st, Head(art_ids), message_id).st,
              ret |-> r.ret + delete_artifact(r.st, Head(art_ids), message_id).ret],
             Tail(art_ids), message_id)
DeleteArtifactsAfter(r, art_ids, message_id) == DeleteArtifacts(r, art_ids, message_id)

\* the cascade block of delete_message, from the store st1 in which the id
\* has left the session's message index
CascadeMessage(st1, message_id) ==
    ThenDeleteKey(
        DeleteArtifacts(
            [st |-> st1, ret |-> 0],
            ListOrEmpty(get_artifact_ids_for_message(st1, message_id, None)),
            message_id),
        k_artifact_index_by_message(message_id))

delete_message(st, message_id, session_id, cascade) ==
    LET msg == get_message(st, message_id, session_id)
    IN  IF ~cascade /\ msg = Nil THEN [st |-> st, ret |-> 0]
        ELSE ThenDeleteKey(
                 IF cascade /\ msg # Nil
                 THEN CascadeMessage(
                          _remove_message_from_session_index(st, msg.sessionId, message_id),
                          message_id)
                 ELSE [st |-> st, ret |-> 0],
                 k_message(message_id))

\* for mid in msg_ids: deleted += self.delete_message(mid, session_id, cascade=True)
RECURSIVE DeleteMessages(_, _, _), DeleteMessagesAfter(_, _, _)
DeleteMessages(r, msg_ids, session_id) ==
    IF msg_ids = <<>> THEN r
    ELSE DeleteMessagesAfter(
             [st |-> delete_message(r.st, Head(msg_ids), session_id, TRUE).st,
              ret |-> r.ret + delete_message(r.st, Head(msg_ids), session_id, TRUE).ret],
             Tail(msg_ids), session_id)
DeleteMessagesAfter(r, msg_ids, session_id) == DeleteMessages(r, msg_ids, session_id)

\* the cascade block of delete_session, from the store st1 in which the
\* session has left its owner's index
CascadeSession(st1, session_id) ==
    ThenDeleteKey(
        DeleteMessages(
            [st |-> st1, ret |-> 0],
            ListOrEmpty(get_message_ids_for_session(st1, session_id, None)),
            session_id),
        k_message_index_by_session(session_id))

delete_session(st, session_id, user_id, cascade) ==
    LET session == get_session(st, session_id, user_id)
    IN  IF ~cascade /\ session = Nil THEN [st |-> st, ret |-> 0]
        ELSE ThenDeleteKey(
                 IF cascade /\ session # Nil
                 THEN CascadeSession(
                          IF ~Falsy(session.userId)
                          THEN _remove_session_from_user_index(
                                   st, session.userId, session.sessionId)
                          ELSE st,
                          session_id)
                 ELSE [st |-> st, ret |-> 0],
                 k_session(session_id))

delete_session_with_ownership(st, session_id, user_id, cascade) ==
    delete_session(st, session_id, user_id, cascade)

delete_message_with_ownership(st, message_id, session_id, user_id, cascade) ==
    IF get_message_with_full_ownership(st, message_id, session_id, user_id) = Nil
    THEN [st |-> st, ret |-> 0]
    ELSE delete_message(st, message_id, session_id, cascade)

delete_artifact_with_ownership(st, artifact_id, message_id, session_id, user_id) ==
    IF get_artifact_with_full_ownership(st, artifact_id, message_id, session_id, user_id) = Nil
    THEN [st |-> st, ret |-> 0]
    ELSE delete_artifact(st, artifact_id, message_id)

(***************************************************************************)
(* The Cache Layer when the store fails or holds a value that does not     *)
(* parse.  failing is the set of keys whose redis call raises; Garbled is  *)
(* a stored value model_validate_json rejects.  An operation gives the     *)
(* store it leaves, what it returns, and whether it raised instead.        *)
(***************************************************************************)
Garbled == [garbled |-> TRUE]

Returned(st, ret) == [st |-> st, ret |-> ret, raised |-> FALSE]

Raised(st) == [st |-> st, ret |-> Nil, raised |-> TRUE]

\* _get_json(k_session) raises on a failing key, model_validate_json on a
\* garbled value; neither is inside a try
get_session_raising(st, session_id, user_id, failing) ==
    IF k_session(session_id) \in failing THEN Raised(st)
    ELSE IF ~has_key(st, k_session(session_id)) THEN Returned(st, Nil)
    ELSE IF st[k_session(session_id)] = Garbled THEN Raised(st)
    ELSE Returned(st, get_session(st, session_id, user_id))

get_message_raising(st, message_id, session_id, failing) ==
    IF k_message(message_id) \in failing THEN Raised(st)
    ELSE IF ~has_key(st, k_message(message_id)) THEN Returned(st, Nil)
    ELSE IF st[k_message(message_id)] = Garbled THEN Raised(st)
    ELSE Returned(st, get_message(st, message_id, session_id))

\* Faulty variant of get_message_ids_for_session_raising: the try encloses
\* the read of the index as well as json.loads.
get_message_ids_for_session_swallowing(st, session_id, user_id, failing) ==
    IF user_id # None /\ get_session_raising(st, session_id, user_id, failing).raised
    THEN Raised(st)
    ELSE IF user_id # None /\ get_session_raising(st, session_id, user_id, failing).ret = Nil
         THEN Returned(st, Nil)
    ELSE IF k_message_index_by_session(session_id) \in failing THEN Returned(st, Nil)
    ELSE Returned(st, get_message_ids_for_session(st, session_id, None))

get_message_ids_for_session_raising(st, session_id, user_id, failing) ==
    IF user_id # None /\ get_session_raising(st, session_id, user_id, failing).raised
    THEN Raised(st)
    ELSE IF user_id # None /\ get_session_raising(st, session_id, user_id, failing).ret = Nil
         THEN Returned(st, Nil)
    ELSE IF k_message_index_by_session(session_id) \in failing THEN Raised(st)
    ELSE Returned(st, get_message_ids_for_session(st, session_id, None))

get_artifact_ids_for_message_raising(st, message_id, session_id, failing) ==
    IF session_id # None /\ get_message_raising(st, message_id, session_id, failing).raised
    THEN Raised(st)
    ELSE IF session_id # None /\ get_message_raising(st, message_id, session_id, failing).ret = Nil
         THEN Returned(st, Nil)
    ELSE IF k_artifact_index_by_message(message_id) \in failing THEN Raised(st)
    ELSE Returned(st, get_artifact_ids_for_message(st, message_id, None))

get_artifact_raising(st, artifact_id, message_id, failing) ==
    IF k_artifact(artifact_id) \in failing THEN Raised(st)
    ELSE IF ~has_key(st, k_artifact(artifact_id)) THEN Returned(st, Nil)
    ELSE IF st[k_artifact(artifact_id)] = Garbled THEN Raised(st)
    ELSE IF message_id # None /\ k_artifact_index_by_message(message_id) \in failing
         THEN Raised(st)
    ELSE Returned(st, get_artifact(st, artifact_id, message_id))

get_sessions_for_user_raising(st, user_id, failing) ==
    IF k_session_index_by_user(user_id) \in failing THEN Raised(st)
    ELSE Returned(st, get_sessions_for_user(st, user_id))

\* _set_json after the calls that gave r: setex raises on a failing key
ThenSetJson(r, key, payload, failing) ==
    IF r.raised THEN r
    ELSE IF key \in failing THEN Raised(r.st)
    ELSE Returned(_set_json(r.st, key, payload), Nil)

\* an index add or remove after the calls that gave r: its read and its
\* write go to the one key
ThenAddSessionToUserIndex(r, user_id, info, failing) ==
    IF r.raised \/ Falsy(user_id) THEN r
    ELSE IF k_session_index_by_user(user_id) \in failing THEN Raised(r.st)
    ELSE Returned(_add_session_to_user_index(r.st, user_id, info), Nil)

ThenAddMessageToSessionIndex(r, session_id, message_id, failing) ==
    IF r.raised THEN r
    ELSE IF k_message_index_by_session(session_id) \in failing THEN Raised(r.st)
    ELSE Returned(_add_message_to_session_index(r.st, session_id, message_id), Nil)

ThenAddArtifactToMessageIndex(r, message_id, artifact_id, failing) ==
    IF r.raised THEN r
    ELSE IF k_artifact_index_by_message(message_id) \in failing THEN Raised(r.st)
    ELSE Returned(_add_artifact_to_message_index(r.st, message_id, artifact_id), Nil)

save_artifact_raising(st, artifact, failing) ==
    ThenSetJson(Returned(st, Nil), k_artifact(artifact.artifactId), DumpArtifact(artifact), failing)

RECURSIVE ThenSaveArtifacts(_, _, _, _)
ThenSaveArtifacts(r, message_id, arts, failing) ==
    IF arts = <<>> THEN r
    ELSE ThenSaveArtifacts(
             ThenAddArtifactToMessageIndex(
                 ThenSetJson(r, k_artifact(Head(arts).artifactId), DumpArtifact(Head(arts)), failing),
                 message_id, Head(arts).artifactId, failing),
             message_id, Tail(arts), failing)

\* save_message after the calls that gave r
ThenSaveMessage(r, message, cascade, failing) ==
    ThenSaveArtifacts(
        ThenAddMessageToSessionIndex(
            ThenSetJson(r, k_message(message.messageId), DumpMessage(message), failing),
            message.sessionId, message.messageId, failing),
        message.messageId, IF cascade THEN message.artifacts ELSE <<>>, failing)

save_message_raising(st, message, cascade, failing) ==
    ThenSaveMessage(Returned(st, Nil), message, cascade, failing)

RECURSIVE ThenSaveMessages(_, _, _, _)
ThenSaveMessages(r, session_id, msgs, failing) ==
    IF msgs = <<>> THEN r
    ELSE ThenSaveMessages(
             ThenSaveMessage(r, [Head(msgs) EXCEPT !.sessionId = session_id], TRUE, failing),
             session_id, Tail(msgs), failing)

save_session_raising(st, session, cascade, failing) ==
    ThenSaveMessages(
        ThenAddSessionToUserIndex(
            ThenSetJson(Returned(st, Nil), k_session(session.sessionId), DumpSession(session), failing),
            session.userId,
            SessionInfo(session.sessionId, session.userId, session.createdAt,
                        session.updatedAt, session.title, session.numMessages,
                        SumArtifacts(session.messages)),
            failing),
        session.sessionId, IF cascade THEN session.messages ELSE <<>>, failing)

\* deleted += int(self.redis.delete(key)) after the calls that gave r
ThenDeleteKeyRaising(r, key, failing) ==
    IF r.raised THEN r
    ELSE IF key \in failing THEN Raised(r.st)
    ELSE Returned(redis_delete(r.st, key).st, r.ret + redis_delete(r.st, key).ret)

\* deleted += self.delete_artifact(aid, message_id) after the calls that gave r
ThenDeleteArtifact(r, artifact_id, message_id, failing) ==
    IF r.raised THEN r
    ELSE IF get_artifact_raising(r.st, artifact_id, message_id, failing).raised
         THEN Raised(r.st)
    ELSE IF get_artifact(r.st, artifact_id, message_id) = Nil THEN r
    ELSE IF message_id = None THEN ThenDeleteKeyRaising(r, k_artifact(artifact_id), failing)
    ELSE ThenDeleteKeyRaising(
             Returned(_remove_artifact_from_message_index(r.st, message_id, artifact_id), r.ret),
             k_artifact(artifact_id), failing)

delete_artifact_raising(st, artifact_id, message_id, failing) ==
    ThenDeleteArtifact(Returned(st, 0), artifact_id, message_id, failing)

RECURSIVE ThenDeleteArtifacts(_, _, _, _)
ThenDeleteArtifacts(r, art_ids, message_id, failing) ==
    IF art_ids = <<>> \/ r.raised THEN r
    ELSE ThenDeleteArtifacts(
             ThenDeleteArtifact(r, Head(art_ids), message_id, failing),
             Tail(art_ids), message_id, failing)

\* the cascade block of delete_message on the outcome r of the index remove
ThenCascadeMessage(r, message_id, failing) ==
    IF r.raised THEN r
    ELSE IF k_artifact_index_by_message(message_id) \in failing THEN Raised(r.st)
    ELSE ThenDeleteKeyRaising(
             ThenDeleteArtifacts(
                 r, ListOrEmpty(get_artifact_ids_for_message(r.st, message_id, None)),
                 message_id, failing),
             k_artifact_index_by_message(message_id), failing)

\* deleted += self.delete_message(mid, session_id, cascade) after the calls
\* that gave r
ThenDeleteMessage(r, message_id, session_id, cascade, failing) ==
    IF r.raised THEN r
    ELSE IF get_message_raising(r.st, message_id, session_id, failing).raised THEN Raised(r.st)
    ELSE IF get_message(r.st, message_id, session_id) = Nil
         THEN (IF cascade THEN ThenDeleteKeyRaising(r, k_message(message_id), failing) ELSE r)
    ELSE IF ~cascade THEN ThenDeleteKeyRaising(r, k_message(message_id), failing)
    ELSE IF k_message_index_by_session(get_message(r.st, message_id, session_id).sessionId)
                \in failing
         THEN Raised(r.st)
    ELSE ThenDeleteKeyRaising(
             ThenCascadeMessage(
                 Returned(_remove_message_from_session_index(
                              r.st, get_message(r.st, message_id, session_id).sessionId,
                              message_id),
                          r.ret),
                 message_id, failing),
             k_message(message_id), failing)

delete_message_raising(st, message_id, session_id, cascade, failing) ==
    ThenDeleteMessage(Returned(st, 0), message_id, session_id, cascade, failing)

RECURSIVE ThenDeleteMessages(_, _, _, _)
ThenDeleteMessages(r, msg_ids, session_id, failing) ==
    IF msg_ids = <<>> \/ r.raised THEN r
    ELSE ThenDeleteMessages(
             ThenDeleteMessage(r, Head(msg_ids), session_id, TRUE, failing),
             Tail(msg_ids), session_id, failing)

\* the cascade block of delete_session on the outcome r of the index remove
ThenCascadeSession(r, session_id, failing) ==
    IF r.raised THEN r
    ELSE IF k_message_index_by_session(session_id) \in failing THEN Raised(r.st)
    ELSE ThenDeleteKeyRaising(
             ThenDeleteMessages(
                 r, ListOrEmpty(get_message_ids_for_session(r.st, session_id, None)),
                 session_id, failing),
             k_message_index_by_session(session_id), failing)

\* _remove_session_from_user_index(session.userId, ...) when session.userId
ThenRemoveSessionFromUserIndex(r, user_id, session_id, failing) ==
    IF r.raised \/ Falsy(user_id) THEN r
    ELSE IF k_session_index_by_user(user_id) \in failing THEN Raised(r.st)
    ELSE Returned(_remove_session_from_user_index(r.st, user_id, session_id), r.ret)

delete_session_raising(st, session_id, user_id, cascade, failing) ==
    IF get_session_raising(st, session_id, user_id, failing).raised THEN Raised(st)
    ELSE IF get_session(st, session_id, user_id) = Nil
         THEN (IF cascade THEN ThenDeleteKeyRaising(Returned(st, 0), k_session(session_id), failing)
               ELSE Returned(st, 0))
    ELSE IF ~cascade THEN ThenDeleteKeyRaising(Returned(st, 0), k_session(session_id), failing)
    ELSE ThenDeleteKeyRaising(
             ThenCascadeSession(
                 ThenRemoveSessionFromUserIndex(
                     Returned(st, 0), get_session(st, session_id, user_id).userId,
                     session_id, failing),
                 session_id, failing),
             k_session(session_id), failing)

(***************************************************************************)
(* MessageService (services/chat/message_service.py).  An operation that   *)
(* reads the clock or draws a fresh id takes the time and the id as        *)
(* arguments.                                                              *)
(***************************************************************************)
\* longest title kept whole, and the characters kept in front of the ellipsis
MaxTitleLen == 50
TitleKeep == 47

IsSpace(c) == c \in {" ", "\t", "\n", "\r"}

RECURSIVE lstrip(_)
lstrip(s) ==
    IF Len(s) > 0 /\ IsSpace(SubSeq(s, 1, 1)) THEN lstrip(SubSeq(s, 2, Len(s))) ELSE s

RECURSIVE rstrip(_)
rstrip(s) ==
    IF Len(s) > 0 /\ IsSpace(SubSeq(s, Len(s), Len(s)))
    THEN rstrip(SubSeq(s, 1, Len(s) - 1))
    ELSE s

\* str.strip()
strip(s) == rstrip(lstrip(s))

\* Faulty variant of title_content: the cut keeps MaxTitleLen characters in
\* front of the ellipsis.
title_content_long(content) ==
    IF Len(strip(content)) > MaxTitleLen
    THEN SubSeq(strip(content), 1, MaxTitleLen) \o "..."
    ELSE strip(content)

\* title_content = message.content.strip(), cut to 47 characters and "..."
\* when longer than 50
title_content(content) ==
    IF Len(strip(content)) > MaxTitleLen
    THEN SubSeq(strip(content), 1, TitleKeep) \o "..."
    ELSE strip(content)

\* len(previous_user_messages) > 0: a message of the session other than
\* message_id, listed in ids, has role user
has_previous_user_message(st, ids, session_id, message_id) ==
    \E i \in 1..Len(ids) :
        /\ get_message(st, ids[i], session_id) # Nil
        /\ get_message(st, ids[i], session_id).role = "user"
        /\ get_message(st, ids[i], session_id).messageId # message_id

\* the title the session is saved with
updated_title(st, session, message, ids) ==
    IF /\ message.role = "user"
       /\ session.title = None
       /\ ~has_previous_user_message(st, ids, session.sessionId, message.messageId)
    THEN title_content(message.content)
    ELSE session.title

_update_session_after_message(st, session, message_id, now) ==
    LET message == get_message(st, message_id, session.sessionId)
        ids == ListOrEmpty(get_message_ids_for_session(st, session.sessionId, None))
    IN  IF message = Nil THEN st
        ELSE save_session(st,
                 [session EXCEPT !.updatedAt = now,
                                 !.numMessages = Len(ids),
                                 !.title = updated_title(st, session, message, ids)],
                 FALSE)

\* the store after save_message and the separate artifacts of a push
push_message_writes(st, message, artifacts, push_artifacts_in_message) ==
    IF message.artifacts = <<>> /\ artifacts # <<>>
    THEN SaveArtifacts(save_message(st, message, push_artifacts_in_message),
                       message.messageId, artifacts)
    ELSE save_message(st, message, push_artifacts_in_message)

\* the store left and the message returned (Nil for None); w is the store
\* after save_message and the separate artifacts
push_message(st, session_id, user_id, message, artifacts, push_artifacts_in_message, now) ==
    IF get_session(st, session_id, user_id) = Nil THEN [st |-> st, ret |-> Nil]
    ELSE CHOOSE r \in {[st |-> _update_session_after_message(
                                  w, get_session(st, session_id, user_id), message.messageId, now),
                         ret |-> message] :
                        w \in {push_message_writes(st, message, artifacts,
                                                   push_artifacts_in_message)}} : TRUE

\* message = Message(sessionId=session_id, content=content, role=role,
\* artifacts=artifacts) with the id the default factory drew
push_message_with_role(st, session_id, user_id, content, role, artifacts, push_artifacts_in_message, new_id, now) ==
    push_message(st, session_id, user_id,
                 Message(new_id, session_id, role, content, artifacts),
                 artifacts, push_artifacts_in_message, now)

push_user_message(st, session_id, user_id, content, artifacts, push_artifacts_in_message, new_id, now) ==
    push_message_with_role(st, session_id, user_id, content, "user", artifacts,
                           push_artifacts_in_message, new_id, now)

push_assistant_message(st, session_id, user_id, content, artifacts, push_artifacts_in_message, new_id, now) ==
    push_message_with_role(st, session_id, user_id, content, "assistant", artifacts,
                           push_artifacts_in_message, new_id, now)

\* MessageService.delete_message: the store left and the bool returned
service_delete_message(st, message_id, session_id, user_id, now) ==
    LET r == delete_message_with_ownership(st, message_id, session_id, user_id, TRUE)
    IN  IF r.ret = 0 THEN [st |-> r.st, ret |-> FALSE]
        ELSE IF get_session(r.st, session_id, user_id) = Nil THEN [st |-> r.st, ret |-> TRUE]
        ELSE [st |-> _update_session_after_message(
                         r.st, get_session(r.st, session_id, user_id), message_id, now),
              ret |-> TRUE]

(***************************************************************************)
(* SessionService (services/chat/session_service.py).                      *)
(***************************************************************************)
\* session = Session(userId=user_id, title=title); save_session(session)
create_new_session(st, user_id, title, new_id, now) ==
    [st |-> save_session(st,
                [Session(new_id, user_id, title, <<>>, 0, now) EXCEPT !.createdAt = now],
                FALSE),
     ret |-> [Session(new_id, user_id, title, <<>>, 0, now) EXCEPT !.createdAt = now]]

\* Faulty variant of _batch_fetch_messages: the sessionId of a fetched record
\* is not compared with session_id.
_batch_fetch_messages_unguarded(st, message_ids, session_id) ==
    LET found == SelectSeq(message_ids,
                           LAMBDA m : has_key(st, k_message(m)) /\ st[k_message(m)] # Garbled)
    IN  [i \in 1..Len(found) |-> ValidateMessage(st[k_message(found[i])])]

\* the records of the listed ids that exist, parse and name session_id, in
\* list order
RECURSIVE _batch_fetch_messages(_, _, _)
_batch_fetch_messages(st, message_ids, session_id) ==
    IF message_ids = <<>> THEN <<>>
    ELSE IF ~has_key(st, k_message(Head(message_ids)))
         THEN _batch_fetch_messages(st, Tail(message_ids), session_id)
    ELSE IF st[k_message(Head(message_ids))] = Garbled
         THEN _batch_fetch_messages(st, Tail(message_ids), session_id)
    ELSE IF ValidateMessage(st[k_message(Head(message_ids))]).sessionId # session_id
         THEN _batch_fetch_messages(st, Tail(message_ids), session_id)
    ELSE <<ValidateMessage(st[k_message(Head(message_ids))])>>
             \o _batch_fetch_messages(st, Tail(message_ids), session_id)

\* artifact_lookup.get(artifact_id) for each listed id, the ids skipped whose
\* record is missing or did not parse in _batch_fetch_artifacts
RECURSIVE LookupArtifacts(_, _)
LookupArtifacts(st, artifact_ids) ==
    IF artifact_ids = <<>> THEN <<>>
    ELSE IF ~has_key(st, k_artifact(Head(artifact_ids)))
         THEN LookupArtifacts(st, Tail(artifact_ids))
    ELSE IF st[k_artifact(Head(artifact_ids))] = Garbled
         THEN LookupArtifacts(st, Tail(artifact_ids))
    ELSE <<ValidateArtifact(st[k_artifact(Head(artifact_ids))])>>
             \o LookupArtifacts(st, Tail(artifact_ids))

\* all_artifact_ids: the ids the artifact indexes of the messages list
AllIndexedArtifactIds(st, messages) ==
    UNION {{ListOrEmpty(get_artifact_ids_for_message(st, messages[i].messageId, None))[j] :
                j \in 1..Len(ListOrEmpty(
                         get_artifact_ids_for_message(st, messages[i].messageId, None)))} :
           i \in 1..Len(messages)}

_attach_artifacts_to_messages(st, messages) ==
    IF AllIndexedArtifactIds(st, messages) = {}
    THEN [i \in 1..Len(messages) |-> [messages[i] EXCEPT !.artifacts = <<>>]]
    ELSE [i \in 1..Len(messages) |->
             [messages[i] EXCEPT !.artifacts =
                 LookupArtifacts(st, ListOrEmpty(
                     get_artifact_ids_for_message(st, messages[i].messageId, None)))]]

\* Faulty variant of SessionResponse: numMessages is left as the session
\* record has it.
SessionResponseStoredCount(session_metadata, messages, n) ==
    [session_metadata EXCEPT !.messages = messages]

\* SessionResponse(...) over the session metadata
SessionResponse(session_metadata, messages, n) ==
    [session_metadata EXCEPT !.messages = messages, !.numMessages = n]

\* Message defines no should_display_in_frontend: the filter raises on the
\* first message and the handler returns None
assemble_session(st, session_metadata, messages, include_artifacts, include_only_for_frontend) ==
    IF include_only_for_frontend /\ messages # <<>> THEN Nil
    ELSE IF messages = <<>> THEN Nil
    ELSE IF include_artifacts
         THEN SessionResponse(session_metadata,
                              _attach_artifacts_to_messages(st, messages), Len(messages))
    ELSE SessionResponse(session_metadata, messages, Len(messages))

get_complete_session(st, session_id, user_id, include_artifacts, include_only_for_frontend) ==
    IF get_session(st, session_id, user_id) = Nil THEN Nil
    ELSE IF ListOrEmpty(get_message_ids_for_session(st, session_id, user_id)) = <<>>
         THEN SessionResponse(get_session(st, session_id, user_id), <<>>, 0)
    ELSE assemble_session(
             st, get_session(st, session_id, user_id),
             _batch_fetch_messages(
                 st, ListOrEmpty(get_message_ids_for_session(st, session_id, user_id)),
                 session_id),
             include_artifacts, include_only_for_frontend)

\* The backing-store reads of get_complete_session, by the place that issues
\* them: get_session, the index read of get_message_ids_for_session, the
\* mget of _batch_fetch_messages, a get_artifact_ids_for_message of
\* _attach_artifacts_to_messages, the mget of _batch_fetch_artifacts
StoreReads == {"session", "message_index", "message_batch", "artifact_index", "artifact_batch"}

\* _batch_fetch_messages when its mget may raise: the except returns []
_batch_fetch_messages_raising(st, message_ids, session_id, raising) ==
    IF raising = "message_batch" THEN <<>>
    ELSE _batch_fetch_messages(st, message_ids, session_id)

\* _batch_fetch_artifacts when its mget raises: the except returns {}, and
\* artifact_lookup.get finds nothing
attach_without_lookup(messages) ==
    [i \in 1..Len(messages) |-> [messages[i] EXCEPT !.artifacts = <<>>]]

\* the body of get_complete_session from step 3 on, the read named by
\* raising failing; an exception that reaches the handler returns None
assemble_session_raising(st, session_metadata, messages, include_artifacts, raising) ==
    IF messages = <<>> THEN Nil
    ELSE IF ~include_artifacts THEN SessionResponse(session_metadata, messages, Len(messages))
    ELSE IF raising = "artifact_index" THEN Nil
    ELSE IF raising = "artifact_batch" /\ AllIndexedArtifactIds(st, messages) # {}
         THEN SessionResponse(session_metadata, attach_without_lookup(messages), Len(messages))
    ELSE SessionResponse(session_metadata,
                         _attach_artifacts_to_messages(st, messages), Len(messages))

\* get_complete_session when the read named by raising raises
get_complete_session_raising(st, session_id, user_id, include_artifacts, raising) ==
    IF raising = "session" THEN Nil
    ELSE IF get_session(st, session_id, user_id) = Nil THEN Nil
    ELSE IF raising = "message_index" THEN Nil
    ELSE IF ListOrEmpty(get_message_ids_for_session(st, session_id, user_id)) = <<>>
         THEN SessionResponse(get_session(st, session_id, user_id), <<>>, 0)
    ELSE assemble_session_raising(
             st, get_session(st, session_id, user_id),
             _batch_fetch_messages_raising(
                 st, ListOrEmpty(get_message_ids_for_session(st, session_id, user_id)),
                 session_id, raising),
             include_artifacts, raising)

\* the reads get_complete_session issues on the store st
reads_issued(st, session_id, user_id, include_artifacts) ==
    {"session"}
    \cup (IF get_session(st, session_id, user_id) = Nil THEN {} ELSE {"message_index"})
    \cup (IF get_session(st, session_id, user_id) = Nil
             \/ ListOrEmpty(get_message_ids_for_session(st, session_id, user_id)) = <<>>
          THEN {} ELSE {"message_batch"})
    \cup (IF get_complete_session(st, session_id, user_id, include_artifacts, FALSE) = Nil
             \/ get_complete_session(st, session_id, user_id, include_artifacts, FALSE).messages = <<>>
             \/ ~include_artifacts
          THEN {} ELSE {"artifact_index"})
    \cup (IF get_complete_session(st, session_id, user_id, include_artifacts, FALSE) = Nil
             \/ get_complete_session(st, session_id, user_id, include_artifacts, FALSE).messages = <<>>
             \/ ~include_artifacts
             \/ AllIndexedArtifactIds(st, get_complete_session(
                    st, session_id, user_id, include_artifacts, FALSE).messages) = {}
          THEN {} ELSE {"artifact_batch"})

\* for msg_id in message_ids: total_artifacts += len(artifact_ids), an absent
\* or empty artifact index adding nothing
RECURSIVE total_artifacts(_, _)
total_artifacts(st, message_ids) ==
    IF message_ids = <<>> THEN 0
    ELSE Len(ListOrEmpty(get_artifact_ids_for_message(st, Head(message_ids), None)))
             + total_artifacts(st, Tail(message_ids))

get_session_summary(st, session_id, user_id) ==
    IF get_session(st, session_id, user_id) = Nil THEN Nil
    ELSE LET session == get_session(st, session_id, user_id)
             message_ids == ListOrEmpty(get_message_ids_for_session(st, session_id, user_id))
         IN  SessionInfo(session.sessionId, session.userId, session.createdAt,
                         session.updatedAt, session.title, Len(message_ids),
                         total_artifacts(st, message_ids))

\* sessions = self.cache.get_sessions_for_user(user_id); the comprehension
\* over None raises and the handler returns []
get_all_user_sessions(st, user_id) ==
    IF get_sessions_for_user(st, user_id) = Nil THEN <<>>
    ELSE SelectSeq(get_sessions_for_user(st, user_id).list, LAMBDA s : s.numMessages > 0)

(***************************************************************************)
(* ArtifactService (services/chat/artifact_service.py) over the            *)
(* push_*_artifact_to_redis helpers of services/storage/storage.py.        *)
(***************************************************************************)
\* description or f"... Artifact for message {message_id}"
DefaultDescription(description, message_id) ==
    IF Falsy(description) THEN "Artifact for message " \o message_id ELSE description

\* push_csv_artifact_to_redis and its image, text and code siblings: build
\* the artifact, save it, index it under the message
push_artifact_to_redis(st, cls, message_id, description, new_id) ==
    LET artifact == [Artifact(new_id, cls) EXCEPT
                        !.description = DefaultDescription(description, message_id)]
    IN  [st |-> IF ~Falsy(message_id)
                THEN _add_artifact_to_message_index(
                         save_artifact(st, artifact), message_id, artifact.artifactId)
                ELSE save_artifact(st, artifact),
         ret |-> artifact]

\* create_csv_artifact, create_image_artifact, create_text_artifact and
\* create_code_artifact, told apart by the class they build
create_artifact(st, cls, message_id, session_id, user_id, description, new_id) ==
    IF get_message_with_full_ownership(st, message_id, session_id, user_id) = Nil
    THEN [st |-> st, ret |-> Nil]
    ELSE push_artifact_to_redis(st, cls, message_id, description, new_id)

update_artifact_description(st, artifact_id, message_id, session_id, user_id, description) ==
    IF get_artifact_with_full_ownership(st, artifact_id, message_id, session_id, user_id) = Nil
    THEN [st |-> st, ret |-> FALSE]
    ELSE [st |-> save_artifact(st,
                     [get_artifact_with_full_ownership(
                          st, artifact_id, message_id, session_id, user_id)
                      EXCEPT !.description = description]),
          ret |-> TRUE]

\* self.prefix, and the key strings the key builders format
CachePrefix == "chatapp:prod:"

KeyName(k) == CachePrefix \o k[1] \o ":" \o k[2]

\* self.cache.redis.mget(names), parsed as artifacts: the values stored under
\* keys of these very names, in order; a name no key has and a value that
\* is no artifact are skipped
RECURSIVE artifacts_at(_, _)
artifacts_at(st, names) ==
    IF names = <<>> THEN <<>>
    ELSE IF \A k \in DOMAIN st : KeyName(k) # Head(names) \/ k[1] # "artifact" \/ st[k] = Garbled
         THEN artifacts_at(st, Tail(names))
    ELSE <<ValidateArtifact(st[CHOOSE k \in DOMAIN st : KeyName(k) = Head(names)])>>
             \o artifacts_at(st, Tail(names))

\* the mget is given artifact_ids, the ids as the index lists them, and not
\* the keys k_artifact makes of them
get_artifacts_for_message(st, message_id, session_id, user_id) ==
    IF get_message_with_full_ownership(st, message_id, session_id, user_id) = Nil THEN <<>>
    ELSE artifacts_at(st, ListOrEmpty(get_artifact_ids_for_message(st, message_id, session_id)))

(***************************************************************************)
(* Arguments the callers supply.                                           *)
(***************************************************************************)
CsvA1 == Artifact("a1", "CSVArtifact")
TextA1 == Artifact("a1", "TextArtifact")
ImageA2 == Artifact("a2", "ImageArtifact")
CodeA2 == Artifact("a2", "CodeArtifact")

ArtifactInputs == {CsvA1, ImageA2}

ArtifactLists == {<<>>, <<CsvA1, ImageA2>>}

MessageInputs ==
    {Message(m, s, "user", "hi", al) : m \in MessageIds, s \in SessionIds, al \in ArtifactLists}

EmbeddedLists ==
    {<<>>,
     <<Message("m1", "s1", "user", "hi", <<CsvA1>>)>>,
     <<Message("m1", "s1", "user", "hi", <<CsvA1>>),
       Message("m2", "s1", "assistant", "hello", <<ImageA2>>)>>}

SessionInputs ==
    {Session(id, uid, None, msgs, Len(msgs), 0) :
        id \in SessionIds, uid \in UserIds \cup {None}, msgs \in EmbeddedLists}

\* sessions as the session routes save them: no embedded messages, varying
\* title, message count and update time
InfoSessionInputs ==
    {Session(id, uid, title, <<>>, n, upd) :
        id \in SessionIds, uid \in UserIds \cup {None}, title \in {None, "t1"},
        n \in {0, 1}, upd \in {1, 2}}

\* an Optional[str] user id, and a user id declared str
OptUserArgs == UserIds \cup {None, ""}
UserArgs == UserIds \cup {""}
OptSessionArgs == SessionIds \cup {None}
OptMessageArgs == MessageIds \cup {None}

(***************************************************************************)
(* The state machine: one action per public operation of RedisCache.       *)
(***************************************************************************)
\* the server processes that share the store
Workers == {"w1", "w2"}

Init ==
    /\ redis = [k \in {} |-> Nil]
    /\ last = [op |-> "init"]
    /\ nops = 0
    /\ inflight = [w \in Workers |-> [pc |-> "idle"]]
    /\ analysis = [pc |-> "idle", requests |-> 0]
    /\ expires = [k \in {} |-> 0]
    /\ clock = 0

Wrote(st, op, args) ==
    /\ nops < MaxOps
    /\ redis' = st
    /\ last' = [op |-> op, args |-> args]
    /\ nops' = nops + 1
    /\ UNCHANGED beside

Deleted(r, op, args) ==
    /\ nops < MaxOps
    /\ redis' = r.st
    /\ last' = [op |-> op, args |-> args, ret |-> r.ret]
    /\ nops' = nops + 1
    /\ UNCHANGED beside

SaveArtifact ==
    \E a \in ArtifactInputs :
        Wrote(save_artifact(redis, a), "save_artifact", <<a>>)

SaveMessage ==
    \E m \in MessageInputs, cascade \in BOOLEAN :
        Wrote(save_message(redis, m, cascade), "save_message", <<m, cascade>>)

SaveSession ==
    \E s \in SessionInputs, cascade \in BOOLEAN :
        Wrote(save_session(redis, s, cascade), "save_session", <<s, cascade>>)

DeleteArtifact ==
    \E a \in ArtifactIds, m \in OptMessageArgs :
        Deleted(delete_artifact(redis, a, m), "delete_artifact", <<a, m>>)

DeleteMessage ==
    \E m \in MessageIds, s \in OptSessionArgs, cascade \in BOOLEAN :
        Deleted(delete_message(redis, m, s, cascade), "delete_message", <<m, s, cascade>>)

DeleteSession ==
    \E s \in SessionIds, u \in OptUserArgs, cascade \in BOOLEAN :
        Deleted(delete_session(redis, s, u, cascade), "delete_session", <<s, u, cascade>>)

DeleteSessionWithOwnership ==
    \E s \in SessionIds, u \in UserArgs, cascade \in BOOLEAN :
        Deleted(delete_session_with_ownership(redis, s, u, cascade),
                "delete_session_with_ownership", <<s, u, cascade>>)

DeleteMessageWithOwnership ==
    \E m \in MessageIds, s \in SessionIds, u \in UserArgs, cascade \in BOOLEAN :
        Deleted(delete_message_with_ownership(redis, m, s, u, cascade),
                "delete_message_with_ownership", <<m, s, u, cascade>>)

DeleteArtifactWithOwnership ==
    \E a \in ArtifactIds, m \in MessageIds, s \in SessionIds, u \in UserArgs :
        Deleted(delete_artifact_with_ownership(redis, a, m, s, u),
                "delete_artifact_with_ownership", <<a, m, s, u>>)

Next ==
    \/ SaveArtifact
    \/ SaveMessage
    \/ SaveSession
    \/ DeleteArtifact
    \/ DeleteMessage
    \/ DeleteSession
    \/ DeleteSessionWithOwnership
    \/ DeleteMessageWithOwnership
    \/ DeleteArtifactWithOwnership

Spec == Init /\ [][Next]_vars

(***************************************************************************)
(* Histories of save_session calls alone, over sessions whose title,       *)
(* message count and update time vary.                                     *)
(***************************************************************************)
SaveSessionInfo ==
    \E s \in InfoSessionInputs, cascade \in BOOLEAN :
        Wrote(save_session(redis, s, cascade), "save_session", <<s, cascade>>)

NextUserIndex == SaveSessionInfo

SpecUserIndex == Init /\ [][NextUserIndex]_vars

(***************************************************************************)
(* The services: one action per operation of MessageService,               *)
(* SessionService and ArtifactService over the same store.  The n-th       *)
(* operation of a history reads the time n and draws the ids numbered n.   *)
(***************************************************************************)
\* number of service operations in one history
MaxServiceOps == 3

\* datetime.now()
Now == nops + 1

\* different_ids_factory[prefix]()
generate_random_id_and_add_prefix(prefix) == prefix \o "_" \o ToString(nops + 1)

StoredIds(st, kind) == {k[2] : k \in {j \in DOMAIN st : j[1] = kind}}

\* the user id the owner of a stored session passes
StoredOwnerOf(st, session_id) == st[k_session(session_id)].userId

\* the session ids a caller may pass: those stored and one of no session
SessionArgs == StoredIds(redis, "session") \cup {"session_0"}

\* the id of a Message object a caller passes: fresh, or that of a message
\* pushed before
MessageArgIds == StoredIds(redis, "message") \cup {generate_random_id_and_add_prefix("message")}

\* message.artifacts, the artifacts argument and push_artifacts_in_message
PushArtifactArgs ==
    {<<(<<>>), (<<>>), TRUE>>, <<(<<CsvA1>>), (<<CsvA1>>), TRUE>>, <<(<<>>), (<<ImageA2>>), FALSE>>}

ServiceStep(r, op, args) ==
    /\ nops < MaxServiceOps
    /\ redis' = r.st
    /\ last' = [op |-> op, args |-> args, ret |-> r.ret]
    /\ nops' = nops + 1
    /\ UNCHANGED beside

CreateNewSession ==
    \E u \in UserIds :
        ServiceStep(create_new_session(redis, u, None,
                        generate_random_id_and_add_prefix("session"), Now),
                    "create_new_session", <<u>>)

PushMessage ==
    \E s \in SessionArgs, u \in UserArgs, id \in MessageArgIds, sid \in SessionArgs,
       role \in {"user", "assistant"}, a \in PushArtifactArgs :
        ServiceStep(push_message(redis, s, u, Message(id, sid, role, "hi", a[1]),
                                 a[2], a[3], Now),
                    "push_message", <<s, u, Message(id, sid, role, "hi", a[1]), a[2], a[3]>>)

ServiceDeleteMessage ==
    \E m \in StoredIds(redis, "message"), s \in SessionArgs, u \in UserArgs :
        ServiceStep(service_delete_message(redis, m, s, u, Now),
                    "MessageService.delete_message", <<m, s, u>>)

CreateArtifact ==
    \E cls \in {"CSVArtifact", "TextArtifact"}, m \in StoredIds(redis, "message"),
       s \in SessionArgs, u \in UserArgs :
        ServiceStep(create_artifact(redis, cls, m, s, u, None,
                        generate_random_id_and_add_prefix("artifact")),
                    "create_artifact", <<cls, m, s, u>>)

UpdateArtifactDescription ==
    \E a \in StoredIds(redis, "artifact"), m \in StoredIds(redis, "message"),
       s \in SessionArgs, u \in UserArgs :
        ServiceStep(update_artifact_description(redis, a, m, s, u, "d1"),
                    "update_artifact_description", <<a, m, s, u>>)

NextService ==
    \/ CreateNewSession
    \/ PushMessage
    \/ ServiceDeleteMessage
    \/ CreateArtifact
    \/ UpdateArtifactDescription

SpecService == Init /\ [][NextService]_vars

(***************************************************************************)
(* Histories of the services that end with stored records going bad: a     *)
(* value written by another schema, or damaged in the store.               *)
(***************************************************************************)
\* number of records that go bad in one history
MaxGarbled == 2

RecordKeys(st) == {k \in DOMAIN st : k[1] \in {"session", "message", "artifact"}}

GarbledKeys(st) == {k \in RecordKeys(st) : st[k] = Garbled}

GarbleRecord ==
    \E k \in RecordKeys(redis) \ GarbledKeys(redis) :
        /\ Cardinality(GarbledKeys(redis)) < MaxGarbled
        /\ redis' = [redis EXCEPT ![k] = Garbled]
        /\ last' = [op |-> "garble", args |-> <<k>>, ret |-> Nil]
        /\ nops' = nops
        /\ UNCHANGED beside

ServeIntact == GarbledKeys(redis) = {} /\ NextService

NextCorrupt ==
    \/ ServeIntact
    \/ GarbleRecord

SpecCorrupt == Init /\ [][NextCorrupt]_vars

(***************************************************************************)
(* Concurrent save_message calls.  Each worker runs the method one store   *)
(* round trip at a time: the setex of the record, then the read and the    *)
(* write of _add_message_to_session_index, which no lock joins.            *)
(***************************************************************************)
\* number of save_message calls in one history
MaxCalls == 3

\* the messages the concurrent calls save: no artifacts, so the cascade
\* writes nothing
RaceMessages == {Message(m, s, "user", "hi", <<>>) : m \in MessageIds, s \in SessionIds}

\* raw = self._get_json(key); ids = json.loads(raw) if raw else []
read_message_index(st, session_id) ==
    IF has_key(st, k_message_index_by_session(session_id))
    THEN st[k_message_index_by_session(session_id)]
    ELSE <<>>

\* Faulty variant of write_message_index: the list read is written back
\* without the id.
write_message_index_unappended(st, session_id, ids, message_id) ==
    _set_json(st, k_message_index_by_session(session_id), ids)

\* if message_id not in ids: ids.append(message_id); self._set_json(key, ids)
write_message_index(st, session_id, ids, message_id) ==
    _set_json(st, k_message_index_by_session(session_id), AppendIfAbsent(ids, message_id))

CallSaveMessage(w) ==
    \E m \in RaceMessages :
        /\ inflight[w].pc \in {"idle", "done"}
        /\ nops < MaxCalls
        /\ inflight' = [inflight EXCEPT ![w] = [pc |-> "set", message |-> m, ids |-> <<>>]]
        /\ nops' = nops + 1
        /\ UNCHANGED <<redis, last, analysis, expires, clock>>

\* self._set_json(k_message(message.messageId), message.model_dump_json())
SetRecord(w) ==
    /\ inflight[w].pc = "set"
    /\ redis' = _set_json(redis, k_message(inflight[w].message.messageId),
                          DumpMessage(inflight[w].message))
    /\ inflight' = [inflight EXCEPT ![w].pc = "read"]
    /\ UNCHANGED <<last, nops, analysis, expires, clock>>

ReadIndex(w) ==
    /\ inflight[w].pc = "read"
    /\ inflight' = [inflight EXCEPT
                       ![w].pc = "write",
                       ![w].ids = read_message_index(redis, inflight[w].message.sessionId)]
    /\ UNCHANGED <<redis, last, nops, analysis, expires, clock>>

WriteIndex(w) ==
    /\ inflight[w].pc = "write"
    /\ redis' = write_message_index(redis, inflight[w].message.sessionId, inflight[w].ids,
                                    inflight[w].message.messageId)
    /\ inflight' = [inflight EXCEPT ![w].pc = "done"]
    /\ last' = [op |-> "save_message", args |-> <<inflight[w].message, FALSE>>]
    /\ UNCHANGED <<nops, analysis, expires, clock>>

NextRace ==
    \E w \in Workers :
        \/ CallSaveMessage(w)
        \/ SetRecord(w)
        \/ ReadIndex(w)
        \/ WriteIndex(w)

SpecRace == Init /\ [][NextRace]_vars

(***************************************************************************)
(* analyze_data (services/llm.py), one step per awaited call: the cap test *)
(* and the system message of an empty session, the push of the current     *)
(* message, the completion and the push of its reply, the handling of the  *)
(* reply with the execution of its code, and the push of the result.       *)
(***************************************************************************)
\* number of analysis requests in one history
MaxRequests == 1

\* number of sessions the requests can address
MaxAnalysisSessions == 1

\* if try_number == 3
MaxTries == 3

AnalyzeResponse(reply, code, artifact, artifact_is_mime_type, code_execution_failed) ==
    [reply |-> reply, code |-> code, artifact |-> artifact,
     artifact_is_mime_type |-> artifact_is_mime_type,
     code_execution_failed |-> code_execution_failed]

\* Faulty variant of cap_reached: the test is made one attempt late.
cap_reached_late(try_number) == try_number = MaxTries + 1

cap_reached(try_number) == try_number = MaxTries

\* the text a completion returns: "" after a failed call, text that is not
\* the JSON asked for, an explanation without code, code, and code that
\* announces a plot
LlmResponses ==
    {[raw |-> "", valid |-> FALSE, explanation |-> "", code |-> "", plot |-> "no_plot"],
     [raw |-> "sorry", valid |-> FALSE, explanation |-> "", code |-> "", plot |-> "no_plot"],
     [raw |-> "{explain}", valid |-> TRUE, explanation |-> "It has 3 rows.", code |-> "",
      plot |-> "no_plot"],
     [raw |-> "{code}", valid |-> TRUE, explanation |-> "The sum.", code |-> "df.sum()",
      plot |-> "no_plot"],
     [raw |-> "{plot}", valid |-> TRUE, explanation |-> "The plot.", code |-> "df.plot()",
      plot |-> "plot_created"]}

\* what local.run_code(code) gives: a failed execution, a text result, an
\* image data URI, a matplotlib figure, and a figure whose conversion raises
Runs ==
    {[status_code |-> 1, artifact |-> None, figure |-> FALSE, error |-> FALSE,
      error_message |-> "NameError: name 'x' is not defined"],
     [status_code |-> 0, artifact |-> "42", figure |-> FALSE, error |-> FALSE,
      error_message |-> None],
     [status_code |-> 0, artifact |-> "data:image/png;base64,AAAA", figure |-> FALSE,
      error |-> FALSE, error_message |-> None],
     [status_code |-> 0, artifact |-> "<Figure>", figure |-> TRUE, error |-> FALSE,
      error_message |-> None],
     [status_code |-> 0, artifact |-> "<Figure>", figure |-> TRUE, error |-> TRUE,
      error_message |-> None]}

\* isinstance(artifact, str) and artifact.startswith("data:image/")
_is_artifact_mime_type(run) ==
    /\ ~run.figure
    /\ Len(run.artifact) >= 11
    /\ SubSeq(run.artifact, 1, 11) = "data:image/"

\* mpl_fig_to_data_uri(artifact)
mpl_fig_to_data_uri(run) == "data:image/png;base64,RklH"

handle_llm_response(response, run) ==
    IF ~response.valid
    THEN AnalyzeResponse(response.raw, "",
                         "Invalid response format from LLM. Please try again.", FALSE, FALSE)
    ELSE IF response.code = ""
    THEN AnalyzeResponse(response.explanation, None, None, FALSE, FALSE)
    ELSE IF run.status_code # 0
    THEN AnalyzeResponse("Code execution failed. Please retry. Here is the error message:\n"
                             \o run.error_message,
                         response.code, None, FALSE, TRUE)
    ELSE IF response.plot = "plot_created" /\ ~_is_artifact_mime_type(run) /\ ~run.figure
    THEN AnalyzeResponse(response.explanation, response.code,
                         "Artifact is not a valid plot or base64 image string.", FALSE, FALSE)
    ELSE IF response.plot = "plot_created" /\ run.figure
    THEN AnalyzeResponse(response.explanation, response.code, mpl_fig_to_data_uri(run),
                         FALSE, FALSE)
    ELSE AnalyzeResponse(response.explanation, response.code, run.artifact,
                         _is_artifact_mime_type(run), FALSE)

\* the conversion of the figure raises, and nothing on the way catches it
handle_llm_response_raises(response, run) ==
    /\ response.valid
    /\ response.code # ""
    /\ run.status_code = 0
    /\ response.plot = "plot_created"
    /\ run.figure
    /\ run.error

\* the text convert_message_for_llm builds: the content, then what each csv,
\* code or text artifact appends; <fence> stands for the three backquotes
\* of a code fence
RECURSIVE llm_text(_, _)
llm_text(content, artifacts) ==
    IF artifacts = <<>> THEN content
    ELSE llm_text(
             IF Head(artifacts).type = "image" THEN content
             ELSE IF Head(artifacts).type = "csv" THEN content \o "\n\n" \o "<df info>"
             ELSE IF Head(artifacts).type = "code"
             THEN content \o "\n\n<fence>plaintext\n" \o Head(artifacts).data \o "\n<fence>"
             ELSE content \o "\n\n" \o Head(artifacts).data,
             Tail(artifacts))

\* content_list: one image_url part for each image artifact
llm_image_parts(artifacts) ==
    SeqMap(LAMBDA a : [type |-> "image_url"],
           SelectSeq(artifacts, LAMBDA a : a.type = "image"))

convert_message_for_llm(message) ==
    IF message.artifacts = <<>>
    THEN [role |-> message.role,
          content |-> IF Falsy(message.content) THEN "" ELSE message.content]
    ELSE [role |-> message.role,
          content |->
              IF llm_image_parts(message.artifacts) = <<>>
              THEN llm_text(IF Falsy(message.content) THEN "" ELSE message.content,
                            message.artifacts)
              ELSE <<[type |-> "text",
                      text |-> llm_text(IF Falsy(message.content) THEN ""
                                        ELSE message.content, message.artifacts)]>>
                   \o llm_image_parts(message.artifacts)]

\* get_messages(session_id, user_id, include_artifacts)
get_messages(st, session_id, user_id, include_artifacts) ==
    CHOOSE messages \in
        {IF session_info = Nil THEN <<>>
         ELSE SeqMap(convert_message_for_llm, session_info.messages) :
            session_info \in {get_complete_session(st, session_id, user_id,
                                                   include_artifacts, FALSE)}} : TRUE

MAX_MESSAGES == 20

\* messages[-MAX_MESSAGES:] when len(messages) > MAX_MESSAGES
limit_messages(messages) ==
    IF Len(messages) > MAX_MESSAGES
    THEN SubSeq(messages, Len(messages) - MAX_MESSAGES + 1, Len(messages))
    ELSE messages

\* len(await get_messages(session_id, user_id, include_artifacts))
get_messages_count(st, session_id, user_id, include_artifacts) ==
    IF get_complete_session(st, session_id, user_id, include_artifacts, FALSE) = Nil THEN 0
    ELSE Len(get_complete_session(st, session_id, user_id, include_artifacts, FALSE).messages)

\* the ids the default factories draw within one step
analysis_id(prefix, tag) == generate_random_id_and_add_prefix(prefix) \o tag

\* the artifacts of the result: code, then image or text
result_artifacts(result) ==
    (IF Falsy(result.code) THEN <<>> ELSE <<Artifact(analysis_id("artifact", "c"), "CodeArtifact")>>)
    \o (IF Falsy(result.artifact) THEN <<>>
        ELSE IF result.artifact_is_mime_type
        THEN <<Artifact(analysis_id("artifact", "i"), "ImageArtifact")>>
        ELSE <<Artifact(analysis_id("artifact", "t"), "TextArtifact")>>)

AnalysisStep(st, a) ==
    /\ redis' = st
    /\ analysis' = a
    /\ last' = [op |-> "analyze_data", args |-> <<analysis.session_id, analysis.user_id>>]
    /\ nops' = nops + 1
    /\ UNCHANGED <<inflight, expires, clock>>

AnalysisCreateSession ==
    \E u \in UserIds :
        /\ Cardinality(StoredIds(redis, "session")) < MaxAnalysisSessions
        /\ redis' = create_new_session(redis, u, None,
                                       generate_random_id_and_add_prefix("session"), Now).st
        /\ last' = [op |-> "create_new_session", args |-> <<u>>]
        /\ nops' = nops + 1
        /\ UNCHANGED beside

\* analyze_data(df, message, session_id, user_id): try_number = 0
RequestAnalysis ==
    \E s \in SessionArgs, u \in UserIds :
        /\ analysis.pc \in {"idle", "returned", "raised"}
        /\ analysis.requests < MaxRequests
        /\ analysis' = [pc |-> "enter", requests |-> analysis.requests + 1,
                        session_id |-> s, user_id |-> u, message |-> "plot it",
                        try_number |-> 0, llm_calls |-> 0, outcomes |-> <<>>,
                        prompt |-> <<>>, response |-> None, result |-> None]
        /\ UNCHANGED <<redis, last, nops, inflight, expires, clock>>

\* the cap test, and the system message _handle_messages_push pushes when
\* the session has no message
EnterAnalysis ==
    /\ analysis.pc = "enter"
    /\ IF cap_reached(analysis.try_number)
       THEN AnalysisStep(redis,
                [analysis EXCEPT
                    !.pc = "returned",
                    !.result = AnalyzeResponse(
                        "Error during calling the LLM for data analysis. Please try again later.",
                        "", "", FALSE, TRUE)])
       ELSE IF get_messages_count(redis, analysis.session_id, analysis.user_id, TRUE) = 0
       THEN AnalysisStep(
                push_message(redis, analysis.session_id, analysis.user_id,
                             Message(analysis_id("message", ""), analysis.session_id, "system",
                                     "You are a data analyst.", <<>>),
                             <<>>, TRUE, Now).st,
                [analysis EXCEPT !.pc = "push"])
       ELSE AnalysisStep(redis, [analysis EXCEPT !.pc = "push"])

\* the push of the current message, with the CSV artifact on the first
\* attempt, and the messages read back for the completion
PushCurrentMessage ==
    /\ analysis.pc = "push"
    /\ \E st \in {push_message(redis, analysis.session_id, analysis.user_id,
                                Message(analysis_id("message", ""), analysis.session_id, "user",
                                        analysis.message, <<>>),
                                IF analysis.try_number = 0
                                THEN <<Artifact(analysis_id("artifact", ""), "CSVArtifact")>>
                                ELSE <<>>,
                                TRUE, Now).st} :
           \E messages \in {limit_messages(get_messages(st, analysis.session_id,
                                                        analysis.user_id, TRUE))} :
               AnalysisStep(st, [analysis EXCEPT !.pc = "llm", !.prompt = messages])

\* response = await atext_completion(...) and the push of the reply; an
\* exception inside the try gives the error response
CompleteAnalysis ==
    /\ analysis.pc = "llm"
    /\ \/ \E response \in LlmResponses :
            AnalysisStep(
                push_message(redis, analysis.session_id, analysis.user_id,
                             Message(analysis_id("message", ""), analysis.session_id,
                                     "assistant", response.raw, <<>>),
                             <<>>, FALSE, Now).st,
                [analysis EXCEPT !.pc = "handle", !.response = response,
                                 !.llm_calls = analysis.llm_calls + 1])
       \/ AnalysisStep(redis,
              [analysis EXCEPT
                  !.pc = "returned",
                  !.llm_calls = analysis.llm_calls + 1,
                  !.result = AnalyzeResponse(
                      "Error during calling the LLM for data analysis. Please try again.",
                      "", "", FALSE, FALSE)])

\* result = await handle_llm_response(response, df); a failed execution
\* starts analyze_data(message=result.reply, try_number=try_number + 1)
HandleResponse ==
    /\ analysis.pc = "handle"
    /\ \E run \in Runs :
        IF handle_llm_response_raises(analysis.response, run)
        THEN AnalysisStep(redis, [analysis EXCEPT !.pc = "raised"])
        ELSE IF handle_llm_response(analysis.response, run).code_execution_failed
        THEN AnalysisStep(redis,
                 [analysis EXCEPT
                     !.pc = "enter",
                     !.message = handle_llm_response(analysis.response, run).reply,
                     !.try_number = analysis.try_number + 1,
                     !.outcomes = Append(analysis.outcomes,
                                         handle_llm_response(analysis.response, run))])
        ELSE AnalysisStep(redis,
                 [analysis EXCEPT
                     !.pc = "final",
                     !.result = handle_llm_response(analysis.response, run),
                     !.outcomes = Append(analysis.outcomes,
                                         handle_llm_response(analysis.response, run))])

\* the push of the result message with its artifacts, and return result
FinishAnalysis ==
    /\ analysis.pc = "final"
    /\ AnalysisStep(
           push_message(redis, analysis.session_id, analysis.user_id,
                        Message(analysis_id("message", ""), analysis.session_id, "user",
                                analysis.result.reply, <<>>),
                        result_artifacts(analysis.result), TRUE, Now).st,
           [analysis EXCEPT !.pc = "returned"])

AnalysisSteps ==
    \/ EnterAnalysis
    \/ PushCurrentMessage
    \/ CompleteAnalysis
    \/ HandleResponse
    \/ FinishAnalysis

NextAnalysis ==
    \/ AnalysisCreateSession
    \/ RequestAnalysis
    \/ AnalysisSteps

SpecAnalysis == Init /\ [][NextAnalysis]_vars

\* the event loop resumes every awaited call that has completed, and the
\* awaited calls complete
FairAnalysis == SpecAnalysis /\ WF_vars(AnalysisSteps)

(***************************************************************************)
(* Expiry.  Every write of the cache layer is a SETEX, which stores the    *)
(* value and sets the key's time to live; a key is gone once the clock     *)
(* reaches its expiry, and DEL takes a key away with its expiry.  An       *)
(* operation of this section is given with the keys its setex calls write. *)
(***************************************************************************)
\* number of operations and clock advances in one history
MaxTtlOps == 3

\* int(os.environ.get("CACHE_TTL_SECONDS", 6 * 60 * 60))
DefaultTtl == 21600

\* an int held where None is possible
PyInt(n) == [int |-> n]

\* the ttl arguments: None, 0, a positive number of seconds, and a negative
\* one, which SETEX refuses
Ttls == {Nil, PyInt(0), PyInt(2), PyInt(-1)}

\* ttl or self.ttl
EffectiveTtl(ttl) == IF ttl = Nil \/ ttl.int = 0 THEN DefaultTtl ELSE ttl.int

\* SETEX raises on an expire time that is not positive
setex_raises(ttl) == EffectiveTtl(ttl) <= 0

\* Faulty variant of setex_expiry: the value is stored by a plain SET, which
\* leaves the key without a time to live.
set_without_expiry(ex, keys, seconds, now) == [k \in DOMAIN ex \ keys |-> ex[k]]

\* the expiries after SETEX key seconds value on each of keys at time now
setex_expiry(ex, keys, seconds, now) ==
    [k \in DOMAIN ex \cup keys |-> IF k \in keys THEN now + seconds ELSE ex[k]]

Range(seq) == {seq[i] : i \in 1..Len(seq)}

save_artifact_keys(artifact) == {k_artifact(artifact.artifactId)}

save_message_keys(message, cascade) ==
    {k_message(message.messageId), k_message_index_by_session(message.sessionId)}
    \cup (IF cascade
          THEN UNION {{k_artifact(a.artifactId), k_artifact_index_by_message(message.messageId)} :
                         a \in Range(message.artifacts)}
          ELSE {})

save_session_keys(session, cascade) ==
    {k_session(session.sessionId)}
    \cup (IF ~Falsy(session.userId) THEN {k_session_index_by_user(session.userId)} ELSE {})
    \cup (IF cascade
          THEN UNION {save_message_keys([m EXCEPT !.sessionId = session.sessionId], TRUE) :
                         m \in Range(session.messages)}
          ELSE {})

\* a _remove_*_index helper returns without a write when the index is not
\* stored
remove_keys(st, key) == IF has_key(st, key) THEN {key} ELSE {}

\* the setex calls of the deletes are those of the _remove_*_index helpers;
\* an index a cascade rewrites and then deletes does not outlive the call
delete_artifact_keys(st, artifact_id, message_id) ==
    IF get_artifact(st, artifact_id, message_id) = Nil \/ message_id = None THEN {}
    ELSE remove_keys(st, k_artifact_index_by_message(message_id))

delete_message_keys(st, message_id, session_id, cascade) ==
    IF ~cascade \/ get_message(st, message_id, session_id) = Nil THEN {}
    ELSE remove_keys(st, k_message_index_by_session(
                             get_message(st, message_id, session_id).sessionId))

delete_session_keys(st, session_id, user_id, cascade) ==
    IF ~cascade \/ get_session(st, session_id, user_id) = Nil THEN {}
    ELSE IF Falsy(get_session(st, session_id, user_id).userId) THEN {}
    ELSE remove_keys(st, k_session_index_by_user(get_session(st, session_id, user_id).userId))

\* the operation op leaves the store st by setex calls on keys, made with
\* the argument ttl; on a refused expire time the first setex raises
TtlStep(st, keys, ttl, op, args) ==
    /\ nops < MaxTtlOps
    /\ redis' = IF setex_raises(ttl) THEN redis ELSE st
    /\ expires' = IF setex_raises(ttl) THEN expires
                  ELSE [k \in DOMAIN st \cap
                               DOMAIN setex_expiry(expires, keys, EffectiveTtl(ttl), clock) |->
                           setex_expiry(expires, keys, EffectiveTtl(ttl), clock)[k]]
    /\ last' = [op |-> op, args |-> args, ttl |-> ttl,
                keys |-> IF setex_raises(ttl) THEN {} ELSE keys,
                at |-> clock, before |-> expires, store |-> redis]
    /\ nops' = nops + 1
    /\ UNCHANGED <<inflight, analysis, clock>>

\* the operations of this section address one artifact, one message and one
\* session
TtlArtifacts == {CsvA1}

TtlMessages == {Message("m1", "s1", "user", "hi", al) : al \in {<<>>, <<CsvA1>>}}

TtlSessions ==
    {Session("s1", uid, None, msgs, Len(msgs), 0) :
        uid \in {"u1", None},
        msgs \in {<<>>, <<Message("m1", "s2", "user", "hi", <<CsvA1>>)>>}}

TtlSaveArtifact ==
    \E a \in TtlArtifacts, ttl \in Ttls :
        TtlStep(save_artifact(redis, a), save_artifact_keys(a), ttl, "save_artifact", <<a>>)

TtlSaveMessage ==
    \E m \in TtlMessages, cascade \in BOOLEAN, ttl \in Ttls :
        TtlStep(save_message(redis, m, cascade), save_message_keys(m, cascade), ttl,
                "save_message", <<m, cascade>>)

TtlSaveSession ==
    \E s \in TtlSessions, cascade \in BOOLEAN, ttl \in Ttls :
        TtlStep(save_session(redis, s, cascade), save_session_keys(s, cascade), ttl,
                "save_session", <<s, cascade>>)

TtlAddSessionToUserIndex ==
    \E s \in TtlSessions, ttl \in Ttls :
        /\ s.userId # None
        /\ TtlStep(_add_session_to_user_index(
                       redis, s.userId,
                       SessionInfo(s.sessionId, s.userId, s.createdAt, s.updatedAt, s.title,
                                   s.numMessages, SumArtifacts(s.messages))),
                   {k_session_index_by_user(s.userId)}, ttl,
                   "_add_session_to_user_index", <<s.userId, s.sessionId>>)

TtlAddMessageToSessionIndex ==
    \E s \in {"s1"}, m \in {"m1"}, ttl \in Ttls :
        TtlStep(_add_message_to_session_index(redis, s, m),
                {k_message_index_by_session(s)}, ttl,
                "_add_message_to_session_index", <<s, m>>)

TtlAddArtifactToMessageIndex ==
    \E m \in {"m1"}, a \in {"a1"}, ttl \in Ttls :
        TtlStep(_add_artifact_to_message_index(redis, m, a),
                {k_artifact_index_by_message(m)}, ttl,
                "_add_artifact_to_message_index", <<m, a>>)

TtlRemoveSessionFromUserIndex ==
    \E u \in {"u1"}, s \in {"s1"} :
        TtlStep(_remove_session_from_user_index(redis, u, s),
                remove_keys(redis, k_session_index_by_user(u)), Nil,
                "_remove_session_from_user_index", <<u, s>>)

TtlRemoveMessageFromSessionIndex ==
    \E s \in {"s1"}, m \in {"m1"} :
        TtlStep(_remove_message_from_session_index(redis, s, m),
                remove_keys(redis, k_message_index_by_session(s)), Nil,
                "_remove_message_from_session_index", <<s, m>>)

TtlRemoveArtifactFromMessageIndex ==
    \E m \in {"m1"}, a \in {"a1"} :
        TtlStep(_remove_artifact_from_message_index(redis, m, a),
                remove_keys(redis, k_artifact_index_by_message(m)), Nil,
                "_remove_artifact_from_message_index", <<m, a>>)

TtlDeleteArtifact ==
    \E a \in {"a1"}, m \in {"m1", None} :
        TtlStep(delete_artifact(redis, a, m).st, delete_artifact_keys(redis, a, m), Nil,
                "delete_artifact", <<a, m>>)

TtlDeleteMessage ==
    \E m \in {"m1"}, s \in {"s1", None}, cascade \in BOOLEAN :
        TtlStep(delete_message(redis, m, s, cascade).st,
                delete_message_keys(redis, m, s, cascade), Nil,
                "delete_message", <<m, s, cascade>>)

TtlDeleteSession ==
    \E s \in {"s1"}, u \in {"u1", None}, cascade \in BOOLEAN :
        TtlStep(delete_session(redis, s, u, cascade).st,
                delete_session_keys(redis, s, u, cascade), Nil,
                "delete_session", <<s, u, cascade>>)

\* time passes: the keys whose expiry the clock has reached are gone
Tick ==
    \E d \in {1, 2, DefaultTtl} :
        /\ nops < MaxTtlOps
        /\ clock' = clock + d
        /\ redis' = [k \in {j \in DOMAIN redis : expires[j] > clock + d} |-> redis[k]]
        /\ expires' = [k \in {j \in DOMAIN redis : expires[j] > clock + d} |-> expires[k]]
        /\ last' = [op |-> "tick"]
        /\ nops' = nops + 1
        /\ UNCHANGED <<inflight, analysis>>

NextTtl ==
    \/ TtlSaveArtifact
    \/ TtlSaveMessage
    \/ TtlSaveSession
    \/ TtlAddSessionToUserIndex
    \/ TtlAddMessageToSessionIndex
    \/ TtlAddArtifactToMessageIndex
    \/ TtlRemoveSessionFromUserIndex
    \/ TtlRemoveMessageFromSessionIndex
    \/ TtlRemoveArtifactFromMessageIndex
    \/ TtlDeleteArtifact
    \/ TtlDeleteMessage
    \/ TtlDeleteSession
    \/ Tick

SpecTtl == Init /\ [][NextTtl]_vars

(***************************************************************************)
(* Concurrent calls of MessageService.push_message, and of                 *)
(* delete_session beside them.  A worker runs push_message in the steps    *)
(* between which another process can reach the store: get_session, the     *)
(* save of the message, the reads of _update_session_after_message, and    *)
(* its save_session of the Session object read at the start.               *)
(***************************************************************************)
\* number of calls in one history
MaxFlights == 3

\* number of sessions the calls can address
MaxFlightSessions == 1

\* the Session object _update_session_after_message saves, Nil when it
\* returns before: updatedAt, numMessages and the title set on the object
\* read by push_message
session_after_message(st, session, message_id, now) ==
    IF get_message(st, message_id, session.sessionId) = Nil THEN Nil
    ELSE [session EXCEPT
             !.updatedAt = now,
             !.numMessages =
                 Len(ListOrEmpty(get_message_ids_for_session(st, session.sessionId, None))),
             !.title = updated_title(
                           st, session, get_message(st, message_id, session.sessionId),
                           ListOrEmpty(get_message_ids_for_session(
                                           st, session.sessionId, None)))]

FlightCreateSession ==
    \E u \in UserIds :
        /\ Cardinality(StoredIds(redis, "session")) < MaxFlightSessions
        /\ nops < MaxFlights
        /\ redis' = create_new_session(redis, u, None,
                                       generate_random_id_and_add_prefix("session"), Now).st
        /\ last' = [op |-> "create_new_session", args |-> <<u>>]
        /\ nops' = nops + 1
        /\ UNCHANGED beside

\* session = self.cache.get_session(session_id, user_id); return None
\* without a session
CallPushMessage(w) ==
    \E s \in SessionArgs, u \in UserIds, role \in {"user", "assistant"} :
        /\ inflight[w].pc \in {"idle", "done"}
        /\ nops < MaxFlights
        /\ inflight' =
               [inflight EXCEPT ![w] =
                   [pc |-> IF get_session(redis, s, u) = Nil THEN "done" ELSE "save",
                    op |-> "push_message",
                    session_id |-> s,
                    session |-> get_session(redis, s, u),
                    message |-> Message(generate_random_id_and_add_prefix("message"), s,
                                        role, "hi", <<>>),
                    recreated |-> FALSE,
                    ret |-> Nil]]
        /\ nops' = nops + 1
        /\ UNCHANGED <<redis, last, analysis, expires, clock>>

\* self.cache.save_message(message, cascade=push_artifacts_in_message)
FlightSaveMessage(w) ==
    /\ inflight[w].pc = "save"
    /\ redis' = push_message_writes(redis, inflight[w].message, <<>>, FALSE)
    /\ inflight' = [inflight EXCEPT ![w].pc = "read"]
    /\ UNCHANGED <<last, nops, analysis, expires, clock>>

\* the reads of _update_session_after_message: the message, the index and
\* the messages listed
FlightReadSession(w) ==
    /\ inflight[w].pc = "read"
    /\ inflight' =
           IF session_after_message(redis, inflight[w].session,
                                    inflight[w].message.messageId, Now) = Nil
           THEN [inflight EXCEPT ![w].pc = "done", ![w].ret = inflight[w].message]
           ELSE [inflight EXCEPT
                    ![w].pc = "write",
                    ![w].session = session_after_message(
                                       redis, inflight[w].session,
                                       inflight[w].message.messageId, Now)]
    /\ UNCHANGED <<redis, last, nops, analysis, expires, clock>>

\* self.cache.save_session(session, cascade=False) and return message
FlightSaveSession(w) ==
    /\ inflight[w].pc = "write"
    /\ redis' = save_session(redis, inflight[w].session, FALSE)
    /\ inflight' = [inflight EXCEPT
                       ![w].pc = "done",
                       ![w].ret = inflight[w].message,
                       ![w].recreated = ~has_key(redis, k_session(inflight[w].session_id))]
    /\ last' = [op |-> "push_message",
                args |-> <<inflight[w].session_id, inflight[w].session.userId,
                           inflight[w].message, <<>>, FALSE>>,
                ret |-> inflight[w].message]
    /\ UNCHANGED <<nops, analysis, expires, clock>>

\* the workers in the middle of a push_message to the session
PushesInFlight(session_id) ==
    {w \in Workers : /\ inflight[w].pc \in {"save", "read", "write"}
                     /\ inflight[w].session_id = session_id}

\* delete_session(session_id, user_id, cascade=True) by the owner, taken in
\* one step while other workers are where they are
FlightDeleteSession(w) ==
    \E s \in StoredIds(redis, "session") :
        /\ inflight[w].pc \in {"idle", "done"}
        /\ nops < MaxFlights
        /\ redis' = delete_session(redis, s, StoredOwnerOf(redis, s), TRUE).st
        /\ inflight' = [inflight EXCEPT ![w] =
                           [pc |-> "done", op |-> "delete_session", session_id |-> s,
                            during |-> PushesInFlight(s),
                            ret |-> delete_session(redis, s, StoredOwnerOf(redis, s), TRUE).ret]]
        /\ last' = [op |-> "delete_session", args |-> <<s, StoredOwnerOf(redis, s), TRUE>>]
        /\ nops' = nops + 1
        /\ UNCHANGED <<analysis, expires, clock>>

PushSteps(w) ==
    \/ CallPushMessage(w)
    \/ FlightSaveMessage(w)
    \/ FlightReadSession(w)
    \/ FlightSaveSession(w)

NextFlight ==
    \/ FlightCreateSession
    \/ \E w \in Workers : PushSteps(w)

SpecFlight == Init /\ [][NextFlight]_vars

NextFlightDelete ==
    \/ FlightCreateSession
    \/ \E w \in Workers : PushSteps(w)
    \/ \E w \in Workers : FlightDeleteSession(w)

SpecFlightDelete == Init /\ [][NextFlightDelete]_vars

(***************************************************************************)
(* A conversation under expiry: sessions are created and messages pushed   *)
(* with the default time to live while the clock advances, and expiry is   *)
(* the only removal.                                                       *)
(***************************************************************************)
\* number of operations in one history
MaxLiveOps == 5

\* number of sessions of one history
MaxLiveSessions == 1

\* the keys the setex calls of push_message write: those of save_message,
\* of the artifacts saved apart, and of the save_session of the update
push_message_keys(st, session, message, artifacts, push_artifacts_in_message) ==
    save_message_keys(message, push_artifacts_in_message)
    \cup (IF message.artifacts = <<>> /\ artifacts # <<>>
          THEN UNION {{k_artifact(a.artifactId),
                       k_artifact_index_by_message(message.messageId)} :
                         a \in Range(artifacts)}
          ELSE {})
    \cup (IF get_message(push_message_writes(st, message, artifacts,
                                             push_artifacts_in_message),
                         message.messageId, session.sessionId) = Nil
          THEN {}
          ELSE save_session_keys(session, FALSE))

\* the operation leaves the store st by setex calls on keys with the
\* default time to live
LiveStep(st, keys, op, args) ==
    /\ nops < MaxLiveOps
    /\ redis' = st
    /\ expires' = [k \in DOMAIN st |->
                      setex_expiry(expires, keys, DefaultTtl, clock)[k]]
    /\ last' = [op |-> op, args |-> args, keys |-> keys, at |-> clock]
    /\ nops' = nops + 1
    /\ UNCHANGED <<inflight, analysis, clock>>

LiveCreateSession ==
    \E u \in UserIds :
        /\ Cardinality(StoredIds(redis, "session")) < MaxLiveSessions
        /\ LiveStep(create_new_session(redis, u, None,
                                       generate_random_id_and_add_prefix("session"), Now).st,
                    save_session_keys(
                        Session(generate_random_id_and_add_prefix("session"), u, None,
                                <<>>, 0, Now), FALSE),
                    "create_new_session", <<u>>)

\* push_message by the owner of a stored session: a message without
\* artifacts, or one with a CSV artifact saved apart
LivePushMessage ==
    \E s \in StoredIds(redis, "session"), role \in {"user", "assistant"},
       arts \in {<<>>, <<Artifact(generate_random_id_and_add_prefix("artifact"),
                                  "CSVArtifact")>>} :
        LiveStep(push_message(redis, s, StoredOwnerOf(redis, s),
                              Message(generate_random_id_and_add_prefix("message"), s, role,
                                      "hi", <<>>),
                              arts, TRUE, Now).st,
                 push_message_keys(redis, get_session(redis, s, StoredOwnerOf(redis, s)),
                                   Message(generate_random_id_and_add_prefix("message"), s,
                                           role, "hi", <<>>),
                                   arts, TRUE),
                 "push_message",
                 <<s, StoredOwnerOf(redis, s),
                   Message(generate_random_id_and_add_prefix("message"), s, role, "hi", <<>>),
                   arts, TRUE>>)

\* the clock advances; the keys whose expiry it reaches are gone
LiveTick ==
    \E d \in {1, DefaultTtl - 1} :
        /\ nops < MaxLiveOps
        /\ clock' = clock + d
        /\ redis' = [k \in {j \in DOMAIN redis : expires[j] > clock + d} |-> redis[k]]
        /\ expires' = [k \in {j \in DOMAIN redis : expires[j] > clock + d} |-> expires[k]]
        /\ last' = [op |-> "tick"]
        /\ nops' = nops + 1
        /\ UNCHANGED <<inflight, analysis>>

NextLive ==
    \/ LiveCreateSession
    \/ LivePushMessage
    \/ LiveTick

SpecLive == Init /\ [][NextLive]_vars

(***************************************************************************)
(* push_message over a store whose calls can fail.  failing is the set of  *)
(* keys whose redis call raises during the push; the result tells the      *)
(* store left, what the call returned, and whether a store call failed.    *)
(***************************************************************************)
\* number of operations in one history
MaxFailOps == 3

\* number of sessions of one history
MaxFailSessions == 1

Outcome(st, ret, failed) == [st |-> st, ret |-> ret, failed |-> failed]

\* the reads of _update_session_after_message raise: get_message, the index
\* read, or a get_message of the loop over the ids
update_reads_raise(st, session, message_id, failing) ==
    \/ get_message_raising(st, message_id, session.sessionId, failing).raised
    \/ /\ get_message_raising(st, message_id, session.sessionId, failing).ret # Nil
       /\ \/ get_message_ids_for_session_raising(st, session.sessionId, None, failing).raised
          \/ /\ get_message(st, message_id, session.sessionId).role = "user"
             /\ session.title = None
             /\ \E m \in Range(ListOrEmpty(
                               get_message_ids_for_session(st, session.sessionId, None))) :
                    get_message_raising(st, m, session.sessionId, failing).raised

\* _update_session_after_message: the except logs whatever was raised and
\* the method returns
update_session_swallowing(st, session, message_id, failing, now) ==
    IF update_reads_raise(st, session, message_id, failing) THEN Outcome(st, Nil, TRUE)
    ELSE IF session_after_message(st, session, message_id, now) = Nil
    THEN Outcome(st, Nil, FALSE)
    ELSE Outcome(save_session_raising(
                     st, session_after_message(st, session, message_id, now), FALSE,
                     failing).st,
                 Nil,
                 save_session_raising(
                     st, session_after_message(st, session, message_id, now), FALSE,
                     failing).raised)

\* save_message and the artifacts saved apart
push_message_writes_raising(st, message, artifacts, push_artifacts_in_message, failing) ==
    ThenSaveArtifacts(save_message_raising(st, message, push_artifacts_in_message, failing),
                      message.messageId,
                      IF message.artifacts = <<>> THEN artifacts ELSE <<>>,
                      failing)

\* push_message: the except of the method logs and returns None
push_message_failing(st, session_id, user_id, message, artifacts, push_artifacts_in_message, failing, now) ==
    IF get_session_raising(st, session_id, user_id, failing).raised
    THEN Outcome(st, Nil, TRUE)
    ELSE IF get_session_raising(st, session_id, user_id, failing).ret = Nil
    THEN Outcome(st, Nil, FALSE)
    ELSE IF push_message_writes_raising(st, message, artifacts, push_artifacts_in_message,
                                        failing).raised
    THEN Outcome(push_message_writes_raising(st, message, artifacts,
                                             push_artifacts_in_message, failing).st,
                 Nil, TRUE)
    ELSE CHOOSE r \in {Outcome(u.st, message, u.failed) :
                          u \in {update_session_swallowing(
                                     push_message_writes_raising(
                                         st, message, artifacts, push_artifacts_in_message,
                                         failing).st,
                                     get_session(st, session_id, user_id),
                                     message.messageId, failing, now)}} : TRUE

FailCreateSession ==
    \E u \in UserIds :
        /\ Cardinality(StoredIds(redis, "session")) < MaxFailSessions
        /\ nops < MaxFailOps
        /\ redis' = create_new_session(redis, u, None,
                                       generate_random_id_and_add_prefix("session"), Now).st
        /\ last' = [op |-> "create_new_session", args |-> <<u>>]
        /\ nops' = nops + 1
        /\ UNCHANGED beside

\* the keys a push to the session by the user can touch
PushKeys(session_id, user_id) ==
    {k_session(session_id), k_session_index_by_user(user_id),
     k_message_index_by_session(session_id),
     k_message(generate_random_id_and_add_prefix("message")),
     k_artifact(generate_random_id_and_add_prefix("artifact")),
     k_artifact_index_by_message(generate_random_id_and_add_prefix("message"))}

\* push_message as push_message_with_role calls it, with a fresh message
\* and at most one key of the store failing
FailPushMessage ==
    \E s \in SessionArgs, u \in UserIds, role \in {"user", "assistant"},
       arts \in {<<>>, <<Artifact(generate_random_id_and_add_prefix("artifact"),
                                  "CSVArtifact")>>},
       flag \in BOOLEAN :
        \E failing \in {{}} \cup {{k} : k \in PushKeys(s, u)} :
            \E r \in {push_message_failing(
                          redis, s, u,
                          Message(generate_random_id_and_add_prefix("message"), s, role,
                                  "hi", arts),
                          arts, flag, failing, Now)} :
                /\ nops < MaxFailOps
                /\ redis' = r.st
                /\ last' = [op |-> "push_message",
                            args |-> <<s, u,
                                       Message(generate_random_id_and_add_prefix("message"),
                                               s, role, "hi", arts),
                                       arts, flag>>,
                            ret |-> r.ret, failed |-> r.failed, failing |-> failing,
                            at |-> Now]
                /\ nops' = nops + 1
                /\ UNCHANGED beside

NextFail ==
    \/ FailCreateSession
    \/ FailPushMessage

SpecFail == Init /\ [][NextFail]_vars

(***************************************************************************)
(* Histories of pushes by the owners of sessions created without title,    *)
(* over contents around the title limit.                                   *)
(***************************************************************************)
\* number of operations in one history of pushes
MaxTitleOps == 4

Ten == "0123456789"
Fifty == Ten \o Ten \o Ten \o Ten \o Ten

\* short and padded with whitespace, longer than the limit, and longer than
\* the limit only by its padding
TitleContents == {"  hi\n", Fifty \o "x", " " \o Fifty}

TitleStep(r, op, args) ==
    /\ nops < MaxTitleOps
    /\ redis' = r.st
    /\ last' = [op |-> op, args |-> args, ret |-> r.ret]
    /\ nops' = nops + 1
    /\ UNCHANGED beside

PushMessageWithRole ==
    \E s \in StoredIds(redis, "session"), role \in {"user", "system", "tool"},
       content \in TitleContents :
        TitleStep(push_message_with_role(redis, s, StoredOwnerOf(redis, s), content, role,
                      <<>>, TRUE, generate_random_id_and_add_prefix("message"), Now),
                  "push_message_with_role", <<s, content, role>>)

PushUserMessage ==
    \E s \in StoredIds(redis, "session"), content \in TitleContents :
        TitleStep(push_user_message(redis, s, StoredOwnerOf(redis, s), content,
                      <<>>, TRUE, generate_random_id_and_add_prefix("message"), Now),
                  "push_user_message", <<s, content>>)

PushAssistantMessage ==
    \E s \in StoredIds(redis, "session"), content \in TitleContents :
        TitleStep(push_assistant_message(redis, s, StoredOwnerOf(redis, s), content,
                      <<>>, TRUE, generate_random_id_and_add_prefix("message"), Now),
                  "push_assistant_message", <<s, content>>)

NextTitle ==
    \/ CreateNewSession
    \/ PushMessageWithRole
    \/ PushUserMessage
    \/ PushAssistantMessage

SpecTitle == Init /\ [][NextTitle]_vars

(***************************************************************************)
(* Histories of pushes with artifacts: the three push methods of           *)
(* MessageService called by the owner of a session with a list of          *)
(* artifacts and either value of push_artifacts_in_message.                *)
(***************************************************************************)
\* number of operations in one history
MaxAttachOps == 3

\* number of sessions of one history
MaxAttachSessions == 1

\* the artifacts argument: none, one artifact, two artifacts, with the ids
\* their default factories drew
AttachLists ==
    {<<>>,
     <<Artifact(generate_random_id_and_add_prefix("artifact") \o "a", "CSVArtifact")>>,
     <<Artifact(generate_random_id_and_add_prefix("artifact") \o "a", "CodeArtifact"),
       Artifact(generate_random_id_and_add_prefix("artifact") \o "b", "ImageArtifact")>>}

AttachStep(r, op, args) ==
    /\ nops < MaxAttachOps
    /\ redis' = r.st
    /\ last' = [op |-> op, args |-> args, ret |-> r.ret]
    /\ nops' = nops + 1
    /\ UNCHANGED beside

AttachCreateSession ==
    \E u \in UserIds :
        /\ Cardinality(StoredIds(redis, "session")) < MaxAttachSessions
        /\ AttachStep(create_new_session(redis, u, None,
                                         generate_random_id_and_add_prefix("session"), Now),
                      "create_new_session", <<u>>)

AttachPushMessageWithRole ==
    \E s \in StoredIds(redis, "session"), arts \in AttachLists, flag \in BOOLEAN :
        AttachStep(push_message_with_role(
                       redis, s, StoredOwnerOf(redis, s), "hi", "system", arts, flag,
                       generate_random_id_and_add_prefix("message"), Now),
                   "push_message_with_role", <<s, arts, flag>>)

AttachPushUserMessage ==
    \E s \in StoredIds(redis, "session"), arts \in AttachLists, flag \in BOOLEAN :
        AttachStep(push_user_message(
                       redis, s, StoredOwnerOf(redis, s), "hi", arts, flag,
                       generate_random_id_and_add_prefix("message"), Now),
                   "push_user_message", <<s, arts, flag>>)

AttachPushAssistantMessage ==
    \E s \in StoredIds(redis, "session"), arts \in AttachLists, flag \in BOOLEAN :
        AttachStep(push_assistant_message(
                       redis, s, StoredOwnerOf(redis, s), "hi", arts, flag,
                       generate_random_id_and_add_prefix("message"), Now),
                   "push_assistant_message", <<s, arts, flag>>)

NextAttach ==
    \/ AttachCreateSession
    \/ AttachPushMessageWithRole
    \/ AttachPushUserMessage
    \/ AttachPushAssistantMessage

SpecAttach == Init /\ [][NextAttach]_vars

(***************************************************************************)
(* Properties.                                                             *)
(***************************************************************************)
\* the owner recorded in the stored session record
StoredOwner(st, session_id) == st[k_session(session_id)].userId

\* session s is stored with an owner, and u is a user id other than that owner
OwnedByOther(st, s, u) ==
    /\ has_key(st, k_session(s))
    /\ ~Falsy(StoredOwner(st, s))
    /\ u # StoredOwner(st, s)

\* C1: every read through session S with a user id other than S's owner (the
\* empty string included) returns not-found.
OwnershipIsolation ==
    \A s \in SessionIds, u2 \in UserArgs :
        OwnedByOther(redis, s, u2) =>
            /\ get_session(redis, s, u2) = Nil
            /\ get_session_with_full_ownership(redis, s, u2) = Nil
            /\ get_message_ids_for_session(redis, s, u2) = Nil
            /\ \A m \in MessageIds :
                /\ get_message_with_full_ownership(redis, m, s, u2) = Nil
                /\ \A a \in ArtifactIds :
                    get_artifact_with_full_ownership(redis, a, m, s, u2) = Nil

\* C2: delete_session and delete_session_with_ownership by a user other than
\* the owner return 0 and leave the store unchanged, with and without cascade.
UnauthorizedDeleteIsNoOp ==
    \A s \in SessionIds, u2 \in UserIds, cascade \in BOOLEAN :
        OwnedByOther(redis, s, u2) =>
            /\ delete_session(redis, s, u2, cascade) = [st |-> redis, ret |-> 0]
            /\ delete_session_with_ownership(redis, s, u2, cascade)
                   = [st |-> redis, ret |-> 0]

\* the store that differs from st only in that session s is absent
SessionAbsent(st, s) == redis_delete(st, k_session(s)).st

\* C3: a caller who is not the owner of S gets the same value back from every
\* read and delete whether S is stored or absent.
NoExistenceLeak ==
    \A s \in SessionIds, u2 \in UserIds :
        OwnedByOther(redis, s, u2) =>
            LET absent == SessionAbsent(redis, s)
            IN  /\ get_session(redis, s, u2) = get_session(absent, s, u2)
                /\ get_message_ids_for_session(redis, s, u2)
                       = get_message_ids_for_session(absent, s, u2)
                /\ \A m \in MessageIds :
                    /\ get_message_with_full_ownership(redis, m, s, u2)
                           = get_message_with_full_ownership(absent, m, s, u2)
                    /\ \A a \in ArtifactIds :
                        /\ get_artifact_with_full_ownership(redis, a, m, s, u2)
                               = get_artifact_with_full_ownership(absent, a, m, s, u2)
                        /\ delete_artifact_with_ownership(redis, a, m, s, u2).ret
                               = delete_artifact_with_ownership(absent, a, m, s, u2).ret
                    /\ \A cascade \in BOOLEAN :
                        delete_message_with_ownership(redis, m, s, u2, cascade).ret
                            = delete_message_with_ownership(absent, m, s, u2, cascade).ret
                /\ \A cascade \in BOOLEAN :
                    /\ delete_session(redis, s, u2, cascade).ret
                           = delete_session(absent, s, u2, cascade).ret
                    /\ delete_session_with_ownership(redis, s, u2, cascade).ret
                           = delete_session_with_ownership(absent, s, u2, cascade).ret

\* the list an index key holds, empty when the key is absent
IndexOf(st, key) == IF has_key(st, key) THEN st[key] ELSE <<>>

SeqRange(seq) == {seq[i] : i \in 1..Len(seq)}

\* the session is stored and u is what its owner passes (None for a session
\* stored without owner)
IsOwner(st, s, u) ==
    /\ has_key(st, k_session(s))
    /\ u \in UserIds \cup {None}
    /\ u = StoredOwner(st, s)

\* no entry for session s in the session index of user u
NotInUserIndex(st, u, s) ==
    \A i \in 1..Len(IndexOf(st, k_session_index_by_user(u))) :
        IndexOf(st, k_session_index_by_user(u))[i].sessionId # s

\* what a cascading delete of s by its owner leaves of the session itself
SessionGone(st, post, s, u) ==
    /\ ~has_key(post, k_session(s))
    /\ ~has_key(post, k_message_index_by_session(s))
    /\ get_session(post, s, u) = Nil
    /\ get_message_ids_for_session(post, s, None) = Nil
    /\ u # None => NotInUserIndex(post, u, s)

\* message m, its artifact index and every artifact that index listed in st
\* are absent from post
MessageGone(st, post, m) ==
    /\ ~has_key(post, k_message(m))
    /\ ~has_key(post, k_artifact_index_by_message(m))
    /\ get_message(post, m, None) = Nil
    /\ \A a \in SeqRange(IndexOf(st, k_artifact_index_by_message(m))) :
        /\ ~has_key(post, k_artifact(a))
        /\ get_artifact(post, a, None) = Nil

\* C4 as stated: after delete_session(S, owner, cascade=True) the session,
\* every message listed in S's message index, every artifact listed in those
\* messages' artifact indexes, and all these indexes are gone.
CascadeRemovesAllListed ==
    \A s \in SessionIds, u \in UserIds \cup {None} :
        IsOwner(redis, s, u) =>
            LET post == delete_session(redis, s, u, TRUE).st
            IN  /\ SessionGone(redis, post, s, u)
                /\ \A m \in SeqRange(IndexOf(redis, k_message_index_by_session(s))) :
                    MessageGone(redis, post, m)

\* the listed message's record names s as its session
BelongsTo(st, m, s) == has_key(st, k_message(m)) /\ st[k_message(m)].sessionId = s

\* C4 amended: the same, for the listed messages whose stored sessionId is S.
CascadeCompleteness ==
    \A s \in SessionIds, u \in UserIds \cup {None} :
        IsOwner(redis, s, u) =>
            LET post == delete_session(redis, s, u, TRUE).st
            IN  /\ SessionGone(redis, post, s, u)
                /\ \A m \in SeqRange(IndexOf(redis, k_message_index_by_session(s))) :
                    BelongsTo(redis, m, s) => MessageGone(redis, post, m)

\* C4 witness: the owner's cascading delete has removed a session that held a
\* message with an artifact.
CascadeCompletenessWitness ==
    /\ last.op \in {"delete_session", "delete_session_with_ownership"}
    /\ last.args[2] \in UserIds
    /\ last.args[3] = TRUE
    /\ last.ret >= 5
    /\ \A k \in DOMAIN redis : k = k_session_index_by_user(last.args[2])
    /\ has_key(redis, k_session_index_by_user(last.args[2]))

\* C5: for the true owner u of session s, the chain returns message m only if
\* m's record names s, and artifact a through m only if moreover a is listed in
\* m's artifact index and a's record exists.
BrokenLinkFailsChain ==
    \A s \in SessionIds, u \in UserIds :
        (has_key(redis, k_session(s)) /\ StoredOwner(redis, s) = u) =>
            \A m \in MessageIds :
                /\ get_message_with_full_ownership(redis, m, s, u) # Nil =>
                       /\ BelongsTo(redis, m, s)
                       /\ get_message_with_full_ownership(redis, m, s, u).messageId = m
                /\ \A a \in ArtifactIds :
                    get_artifact_with_full_ownership(redis, a, m, s, u) # Nil =>
                        /\ BelongsTo(redis, m, s)
                        /\ InSeq(a, IndexOf(redis, k_artifact_index_by_message(m)))
                        /\ has_key(redis, k_artifact(a))
                        /\ get_artifact_with_full_ownership(redis, a, m, s, u).artifactId = a

\* C5 witness: the owner of two sessions reaches a message and its artifact
\* through the message's session, not the message through the other session
\* and not the artifact through the other message.
BrokenLinkWitness ==
    \E u \in UserIds, s1, s2 \in SessionIds, m1, m2 \in MessageIds, a \in ArtifactIds :
        /\ s1 # s2 /\ m1 # m2
        /\ get_session(redis, s1, u) # Nil /\ get_session(redis, s2, u) # Nil
        /\ get_message_with_full_ownership(redis, m1, s1, u) # Nil
        /\ get_message_with_full_ownership(redis, m1, s2, u) = Nil
        /\ get_message_with_full_ownership(redis, m2, s1, u) # Nil
        /\ get_artifact_with_full_ownership(redis, a, m1, s1, u) # Nil
        /\ get_artifact_with_full_ownership(redis, a, m2, s1, u) = Nil

\* every delete of the cache layer applied to st, with every argument
DeleteResults(st) ==
    {delete_session(st, s, u, c) : s \in SessionIds, u \in OptUserArgs, c \in BOOLEAN}
    \cup {delete_session_with_ownership(st, s, u, c) :
              s \in SessionIds, u \in UserArgs, c \in BOOLEAN}
    \cup {delete_message(st, m, s, c) :
              m \in MessageIds, s \in OptSessionArgs, c \in BOOLEAN}
    \cup UNION {{delete_message_with_ownership(st, m, s, u, c) :
                    m \in MessageIds, s \in SessionIds, c \in BOOLEAN} : u \in UserArgs}
    \cup {delete_artifact(st, a, m) : a \in ArtifactIds, m \in OptMessageArgs}
    \cup UNION {{delete_artifact_with_ownership(st, a, m, s, u) :
                    a \in ArtifactIds, m \in MessageIds, s \in SessionIds} : u \in UserArgs}

\* C6: a delete that returns 0 left the store exactly as it was; a delete that
\* removed or rewrote a key returns more than 0.
ZeroMeansNothingHappened ==
    \A r \in DeleteResults(redis) :
        /\ r.ret >= 0
        /\ r.ret = 0 => r.st = redis
        /\ r.st # redis => r.ret > 0

\* C6 witness: a delete has just returned 0 for a session that is stored, and
\* the owner's delete of it would return more than 0.
ZeroMeansNothingHappenedWitness ==
    /\ last.op = "delete_session"
    /\ last.ret = 0
    /\ has_key(redis, k_session(last.args[1]))
    /\ delete_session(redis, last.args[1], StoredOwner(redis, last.args[1]), FALSE).ret > 0

\* entities of every kind and variant
AllArtifacts ==
    {Artifact(id, ArtifactClasses[i]) : id \in ArtifactIds, i \in 1..Len(ArtifactClasses)}

AllMessages ==
    {Message(m, "s1", r, "hi", al) :
        m \in MessageIds, r \in {"user", "tool"},
        al \in ArtifactLists \cup {<<TextA1, CodeA2>>}}

AllSessions ==
    {Session(id, uid, title, msgs, Len(msgs), 1) :
        id \in SessionIds, uid \in {None, "u1"}, title \in {None, "t1"},
        msgs \in {<<>>,
                  <<Message("m1", "s1", "user", "hi", <<CsvA1, ImageA2>>),
                    Message("m2", "s2", "tool", "out", <<TextA1, CodeA2>>)>>}}

IndexKeys(st) ==
    {k \in DOMAIN st : k[1] \in {"message_index:session", "artifact_index:message"}}

NoDuplicates(seq) == \A i, j \in 1..Len(seq) : i # j => seq[i] # seq[j]

IsPrefix(p, q) == Len(p) <= Len(q) /\ \A i \in 1..Len(p) : p[i] = q[i]

\* every message and artifact index of post is duplicate-free and extends the
\* list the same key held in pre
KeepsIndexOrder(pre, post) ==
    \A k \in IndexKeys(post) :
        /\ NoDuplicates(post[k])
        /\ IsPrefix(IndexOf(pre, k), post[k])

\* C8: no message index and no artifact index ever holds an id twice, and a
\* save_message or save_session(cascade) leaves the ids already indexed where
\* they were.
IndexIdempotence ==
    /\ \A k \in IndexKeys(redis) : NoDuplicates(redis[k])
    /\ \A m \in MessageInputs, cascade \in BOOLEAN :
        KeepsIndexOrder(redis, save_message(redis, m, cascade))
    /\ \A s \in SessionInputs :
        KeepsIndexOrder(redis, save_session(redis, s, TRUE))

\* C8 witness: a message with two artifacts has just been saved behind another
\* message of its session, and saving it again changes no index.
IndexIdempotenceWitness ==
    /\ last.op = "save_message"
    /\ last.args[2] = TRUE
    /\ LET m == last.args[1]
           post == save_message(redis, m, TRUE)
       IN  /\ Len(m.artifacts) = 2
           /\ Len(IndexOf(redis, k_message_index_by_session(m.sessionId))) = 2
           /\ IndexOf(redis, k_message_index_by_session(m.sessionId))[1] = m.messageId
           /\ \A k \in IndexKeys(post) : post[k] = IndexOf(redis, k)

\* C10: with M's artifact index listing exactly A and B, delete_artifact(A, M)
\* leaves the index equal to [B] and B's record untouched, and A is not found
\* afterwards, with or without the message id.
ArtifactIndexAfterDelete ==
    \A m \in MessageIds, a, b \in ArtifactIds :
        (a # b /\ SeqRange(IndexOf(redis, k_artifact_index_by_message(m))) = {a, b}
             /\ Len(IndexOf(redis, k_artifact_index_by_message(m))) = 2) =>
            LET post == delete_artifact(redis, a, m).st
            IN  /\ IndexOf(post, k_artifact_index_by_message(m)) = <<b>>
                /\ has_key(post, k_artifact(b)) = has_key(redis, k_artifact(b))
                /\ has_key(redis, k_artifact(b)) => post[k_artifact(b)] = redis[k_artifact(b)]
                /\ get_artifact(post, a, m) = Nil
                /\ get_artifact(post, a, None) = Nil

UserIndex(st, u) == IndexOf(st, k_session_index_by_user(u))

\* the summary save_session derives from a stored session record
InfoOfRecord(rec) ==
    SessionInfo(rec.sessionId, rec.userId, rec.createdAt, rec.updatedAt, rec.title,
                rec.numMessages, SumArtifacts(rec.messages))

ArtifactIndexKeys(st) == {k \in DOMAIN st : k[1] = "artifact_index:message"}

MessageIndexKeys(st) == {k \in DOMAIN st : k[1] = "message_index:session"}

\* the artifact ids whose primary record is in pre and not in post
RemovedArtifacts(pre, post) ==
    {a \in ArtifactIds : has_key(pre, k_artifact(a)) /\ ~has_key(post, k_artifact(a))}

\* C11: after any delete_artifact, delete_message or delete_session, with
\* every combination of the optional arguments, no artifact index of the store
\* lists an artifact id whose record that call removed.
NoDanglingArtifactIndex ==
    \A r \in DeleteResults(redis) :
        \A k \in ArtifactIndexKeys(r.st) :
            SeqRange(r.st[k]) \cap RemovedArtifacts(redis, r.st) = {}

\* M is stored under a session id other than s
StoredUnderOther(st, m, s) ==
    has_key(st, k_message(m)) /\ st[k_message(m)].sessionId # s

\* C12: delete_message(M, S', cascade) with S' other than M's stored session
\* id returns 0 and leaves the store unchanged, with and without cascade.
DeleteMessageAuthorizes ==
    \A m \in MessageIds, s \in SessionIds, cascade \in BOOLEAN :
        StoredUnderOther(redis, m, s) =>
            delete_message(redis, m, s, cascade) = [st |-> redis, ret |-> 0]

\* C13: a delete_message that removed M's record, with or without cascade,
\* leaves M's id out of the message index of the session M was stored under.
DeleteMessageUnlinks ==
    \A m \in MessageIds, s \in OptSessionArgs, cascade \in BOOLEAN :
        LET post == delete_message(redis, m, s, cascade).st
        IN  (has_key(redis, k_message(m)) /\ ~has_key(post, k_message(m))) =>
                ~InSeq(m, IndexOf(post,
                              k_message_index_by_session(redis[k_message(m)].sessionId)))
\* the messages session s lists, in index order, and the places of those of
\* role user
ListedMessages(st, s) ==
    [i \in 1..Len(IndexOf(st, k_message_index_by_session(s))) |->
        st[k_message(IndexOf(st, k_message_index_by_session(s))[i])]]

UserPlaces(msgs) == {i \in 1..Len(msgs) : msgs[i].role = "user"}

FirstUserMessage(msgs) == msgs[CHOOSE i \in UserPlaces(msgs) : \A j \in UserPlaces(msgs) : i <= j]

\* title is text when text has at most 50 characters, else 50 characters: the
\* first 47 of text and an ellipsis
TitleFrom(title, text) ==
    IF Len(text) <= 50 THEN title = text
    ELSE /\ Len(title) = 50
         /\ SubSeq(title, 1, 47) = SubSeq(text, 1, 47)
         /\ SubSeq(title, 48, 50) = "..."

\* no further push to s by its owner changes the title of s
TitleKept(st, s) ==
    \A role \in {"user", "assistant", "system", "tool"}, content \in TitleContents :
        push_message_with_role(st, s, StoredOwnerOf(st, s), content, role, <<>>, TRUE,
            "message_next", Now).st[k_session(s)].title = st[k_session(s)].title

PushedMessages ==
    {Message(id, sid, role, "hi", arts) :
        id \in MessageArgIds, sid \in SessionArgs, role \in {"user", "assistant"},
        arts \in {<<>>, <<CsvA1>>}}

\* session s is absent, or stored with an owner other than u
NotOwnedBy(st, s, u) == ~has_key(st, k_session(s)) \/ StoredOwnerOf(st, s) # u

\* C15: a push with a user id that does not own the target session, or to a
\* session id that does not exist, returns None and writes nothing.
PushRejectsNonOwner ==
    \A s \in SessionArgs, u \in UserArgs :
        NotOwnedBy(redis, s, u) =>
            /\ \A m \in PushedMessages, a \in PushArtifactArgs :
                push_message(redis, s, u, m, a[2], a[3], Now) = [st |-> redis, ret |-> Nil]
            /\ \A role \in {"user", "tool"}, a \in PushArtifactArgs :
                push_message_with_role(redis, s, u, "hi", role, a[2], a[3],
                    generate_random_id_and_add_prefix("message"), Now)
                    = [st |-> redis, ret |-> Nil]
            /\ \A a \in PushArtifactArgs :
                /\ push_user_message(redis, s, u, "hi", a[2], a[3],
                       generate_random_id_and_add_prefix("message"), Now)
                       = [st |-> redis, ret |-> Nil]
                /\ push_assistant_message(redis, s, u, "hi", a[2], a[3],
                       generate_random_id_and_add_prefix("message"), Now)
                       = [st |-> redis, ret |-> Nil]

\* the stored record of session s counts the ids of its message index, and
\* the entry of s in its owner's index carries the record's count and title
SessionCountsIndex(st, s) ==
    /\ st[k_session(s)].numMessages = Len(IndexOf(st, k_message_index_by_session(s)))
    /\ \E i \in 1..Len(UserIndex(st, StoredOwnerOf(st, s))) :
        /\ UserIndex(st, StoredOwnerOf(st, s))[i].sessionId = s
        /\ UserIndex(st, StoredOwnerOf(st, s))[i].numMessages = st[k_session(s)].numMessages
        /\ UserIndex(st, StoredOwnerOf(st, s))[i].title = st[k_session(s)].title

\* every message and artifact record of pre is in post as it was
RecordsKept(pre, post) ==
    \A k \in DOMAIN pre :
        k[1] \in {"message", "artifact"} => has_key(post, k) /\ post[k] = pre[k]

\* C16: after every push_message that returns a message, the session record
\* counts its message index, the owner's index entry agrees with the record,
\* and the session update rewrote no message or artifact record.
PushKeepsSessionCount ==
    \A s \in SessionArgs, u \in UserArgs, m \in PushedMessages, a \in PushArtifactArgs :
        push_message(redis, s, u, m, a[2], a[3], Now).ret # Nil =>
            /\ SessionCountsIndex(push_message(redis, s, u, m, a[2], a[3], Now).st, s)
            /\ RecordsKept(push_message_writes(redis, m, a[2], a[3]),
                           push_message(redis, s, u, m, a[2], a[3], Now).st)

\* C17: after MessageService.delete_message(M, S, U) returns True, M's
\* record, its artifact index and the artifacts it listed are gone, M is not in
\* S's message index, and the session record and the owner's index entry count
\* the message index again.
ServiceDeleteRecounts ==
    \A m \in StoredIds(redis, "message"), s \in StoredIds(redis, "session"), u \in UserIds :
        service_delete_message(redis, m, s, u, Now).ret =>
            /\ MessageGone(redis, service_delete_message(redis, m, s, u, Now).st, m)
            /\ ~InSeq(m, IndexOf(service_delete_message(redis, m, s, u, Now).st,
                                 k_message_index_by_session(s)))
            /\ SessionCountsIndex(service_delete_message(redis, m, s, u, Now).st, s)

\* message m is stored under session s, and s is stored with owner u
ChainHolds(st, m, s, u) ==
    /\ has_key(st, k_session(s)) /\ StoredOwnerOf(st, s) = u
    /\ has_key(st, k_message(m)) /\ st[k_message(m)].sessionId = s

\* C18: when the owning message is not reachable through the chain of
\* message, session and user, the four create_*_artifact return None and
\* write nothing, and update_artifact_description returns False and saves
\* nothing.
ArtifactCreationNeedsChain ==
    \A m \in StoredIds(redis, "message") \cup {"message_0"}, s \in SessionArgs, u \in UserArgs :
        ~ChainHolds(redis, m, s, u) =>
            /\ \A i \in 1..Len(ArtifactClasses) :
                create_artifact(redis, ArtifactClasses[i], m, s, u, None,
                    generate_random_id_and_add_prefix("artifact"))
                    = [st |-> redis, ret |-> Nil]
            /\ \A a \in StoredIds(redis, "artifact") :
                update_artifact_description(redis, a, m, s, u, "d1")
                    = [st |-> redis, ret |-> FALSE]

\* the ids of a list of messages or artifacts
MessageIdsOf(msgs) == [i \in 1..Len(msgs) |-> msgs[i].messageId]

ArtifactIdsOf(arts) == [i \in 1..Len(arts) |-> arts[i].artifactId]

\* C19: for the owner, get_complete_session returns the messages of S's
\* message index in index order, each with the artifacts of its own artifact
\* index in index order, and numMessages equal to the number of messages
\* returned.
AssemblyFollowsIndexes ==
    \A s \in StoredIds(redis, "session") :
        LET view == get_complete_session(redis, s, StoredOwnerOf(redis, s), TRUE, FALSE)
        IN  /\ view # Nil
            /\ MessageIdsOf(view.messages) = IndexOf(redis, k_message_index_by_session(s))
            /\ view.numMessages = Len(view.messages)
            /\ \A i \in 1..Len(view.messages) :
                ArtifactIdsOf(view.messages[i].artifacts)
                    = IndexOf(redis, k_artifact_index_by_message(view.messages[i].messageId))

\* C20: for the owner of a session whose message index is absent or empty,
\* get_complete_session returns a view with no messages and numMessages 0.
EmptySessionView ==
    \A s \in StoredIds(redis, "session"), fa \in BOOLEAN :
        IndexOf(redis, k_message_index_by_session(s)) = <<>> =>
            LET view == get_complete_session(redis, s, StoredOwnerOf(redis, s), fa, FALSE)
            IN  /\ view # Nil
                /\ view.sessionId = s
                /\ view.messages = <<>>
                /\ view.numMessages = 0

\* C20 witness: the only message of a session has just been deleted through
\* the service; the index is stored empty, the record still counts one
\* message, and the owner's view has none.
EmptySessionViewWitness ==
    /\ last.op = "MessageService.delete_message"
    /\ last.ret = TRUE
    /\ has_key(redis, k_session(last.args[2]))
    /\ has_key(redis, k_message_index_by_session(last.args[2]))
    /\ redis[k_message_index_by_session(last.args[2])] = <<>>
    /\ redis[k_session(last.args[2])].numMessages = 1
    /\ get_complete_session(redis, last.args[2], StoredOwnerOf(redis, last.args[2]),
                            TRUE, FALSE).numMessages = 0

(***************************************************************************)
(* Failures, corrupt values and listings.                                  *)
(***************************************************************************)
\* C21: a backing-store read that raises during get_complete_session makes
\* the call return None, whichever of its reads it is: the session read,
\* the message-index read, the message batch read, a per-message
\* artifact-index read or the artifact batch read
ReadFailureGivesNone ==
    \A s \in SessionArgs, u \in UserIds, ia \in BOOLEAN :
        \A r \in reads_issued(redis, s, u, ia) :
            get_complete_session_raising(redis, s, u, ia, r) = Nil

\* the ids session s's message index lists, none when it has no index
MessageIndexOf(st, s) ==
    IF has_key(st, k_message_index_by_session(s)) THEN st[k_message_index_by_session(s)]
    ELSE <<>>

\* the length of message m's artifact index, 0 when it has none
ArtifactIndexLen(st, m) ==
    IF has_key(st, k_artifact_index_by_message(m)) THEN Len(st[k_artifact_index_by_message(m)])
    ELSE 0

\* the artifact-index lengths of the first n ids of ids, added up
RECURSIVE IndexedArtifacts(_, _, _)
IndexedArtifacts(st, ids, n) ==
    IF n = 0 THEN 0 ELSE IndexedArtifacts(st, ids, n - 1) + ArtifactIndexLen(st, ids[n])

\* C22: get_session_summary(S, U) gives the owner numMessages equal to the
\* length of S's message index and numArtifacts equal to the sum of the
\* lengths of the artifact indexes of the ids in it; a non-owner, or anyone
\* asking for a session that is not stored, gets None
SummaryCounts ==
    \A s \in SessionArgs, u \in UserArgs :
        IF NotOwnedBy(redis, s, u)
        THEN get_session_summary(redis, s, u) = Nil
        ELSE /\ get_session_summary(redis, s, u) # Nil
             /\ get_session_summary(redis, s, u).numMessages = Len(MessageIndexOf(redis, s))
             /\ get_session_summary(redis, s, u).numArtifacts
                    = IndexedArtifacts(redis, MessageIndexOf(redis, s),
                                       Len(MessageIndexOf(redis, s)))

\* message m's record is stored, parses and names session s
WellFormedIn(st, m, s) ==
    /\ has_key(st, k_message(m))
    /\ st[k_message(m)] # Garbled
    /\ st[k_message(m)].sessionId = s

\* artifact a's record is stored and parses
WellFormedArtifact(st, a) == has_key(st, k_artifact(a)) /\ st[k_artifact(a)] # Garbled

\* the ids artifact index of message m lists, none when it has no index
ArtifactIndexOf(st, m) ==
    IF has_key(st, k_artifact_index_by_message(m)) THEN st[k_artifact_index_by_message(m)]
    ELSE <<>>

\* the view the owner gets of s holds the well-formed messages of s's index
\* in index order, each with the well-formed artifacts of its index in index
\* order; with an index that lists no well-formed message there is no view
BatchSkipsGarbled(st, s) ==
    LET view == get_complete_session(st, s, StoredOwnerOf(st, s), TRUE, FALSE)
        kept == SelectSeq(MessageIndexOf(st, s), LAMBDA m : WellFormedIn(st, m, s))
    IN  IF kept = <<>> THEN MessageIndexOf(st, s) # <<>> => view = Nil
        ELSE /\ view # Nil
             /\ MessageIdsOf(view.messages) = kept
             /\ \A i \in 1..Len(view.messages) :
                    ArtifactIdsOf(view.messages[i].artifacts)
                        = SelectSeq(ArtifactIndexOf(st, kept[i]),
                                    LAMBDA a : WellFormedArtifact(st, a))

\* C23: a stored value that fails deserialization is not-found for that
\* record only: get_session, get_message and get_artifact on it return None,
\* and the batch reads of the assembler skip it and return every other
\* well-formed record of the batch
GarbledIsNotFound ==
    /\ \A k \in GarbledKeys(redis) :
        /\ k[1] = "session" => get_session_raising(redis, k[2], None, {}) = Returned(redis, Nil)
        /\ k[1] = "message" => get_message_raising(redis, k[2], None, {}) = Returned(redis, Nil)
        /\ k[1] = "artifact" => get_artifact_raising(redis, k[2], None, {}) = Returned(redis, Nil)
    /\ \A s \in StoredIds(redis, "session") :
        k_session(s) \notin GarbledKeys(redis) => BatchSkipsGarbled(redis, s)

\* the keys of the stored sessions, messages, artifacts and users, and of
\* one id of each kind that is not stored
EveryKey ==
    UNION {{k_session(s), k_message_index_by_session(s)} : s \in SessionArgs}
    \cup UNION {{k_message(m), k_artifact_index_by_message(m)} : m \in MessageArgIds \cup {"m1"}}
    \cup {k_artifact(a) : a \in StoredIds(redis, "artifact") \cup ArtifactIds}
    \cup {k_session_index_by_user(u) : u \in UserIds}

\* the store is down, or the calls on one stored key fail
FailingSets == {EveryKey} \cup {{k} : k \in DOMAIN redis}

\* the outcome r of an operation under failing calls is an exception, always
\* so when the store is down, and never a result other than the one the
\* operation gives when no call fails
Propagated(r, failing, unfailing) ==
    /\ failing = EveryKey => r.raised
    /\ ~r.raised => r = unfailing

Unfailing(r) == Returned(r.st, r.ret)

\* C24: a backing-store I/O failure during a Cache Layer operation (get,
\* save, delete, index read) reaches the caller as an error; the Cache Layer
\* never turns it into None, an empty list or 0
IoFailurePropagates ==
    \A failing \in FailingSets :
        /\ \A s \in SessionArgs, u \in {None, "u1"} :
            /\ Propagated(get_session_raising(redis, s, u, failing), failing,
                          Returned(redis, get_session(redis, s, u)))
            /\ Propagated(get_message_ids_for_session_raising(redis, s, u, failing), failing,
                          Returned(redis, get_message_ids_for_session(redis, s, u)))
            /\ \A c \in BOOLEAN :
                Propagated(delete_session_raising(redis, s, u, c, failing), failing,
                           Unfailing(delete_session(redis, s, u, c)))
        /\ \A m \in MessageArgIds, s \in SessionArgs \cup {None} :
            /\ Propagated(get_message_raising(redis, m, s, failing), failing,
                          Returned(redis, get_message(redis, m, s)))
            /\ Propagated(get_artifact_ids_for_message_raising(redis, m, s, failing), failing,
                          Returned(redis, get_artifact_ids_for_message(redis, m, s)))
            /\ \A c \in BOOLEAN :
                Propagated(delete_message_raising(redis, m, s, c, failing), failing,
                           Unfailing(delete_message(redis, m, s, c)))
        /\ \A a \in StoredIds(redis, "artifact") \cup {"a1"}, m \in MessageArgIds \cup {None} :
            /\ Propagated(get_artifact_raising(redis, a, m, failing), failing,
                          Returned(redis, get_artifact(redis, a, m)))
            /\ Propagated(delete_artifact_raising(redis, a, m, failing), failing,
                          Unfailing(delete_artifact(redis, a, m)))
        /\ \A u \in UserIds :
            Propagated(get_sessions_for_user_raising(redis, u, failing), failing,
                       Returned(redis, get_sessions_for_user(redis, u)))
        /\ \A a \in ArtifactInputs :
            Propagated(save_artifact_raising(redis, a, failing), failing,
                       Returned(save_artifact(redis, a), Nil))
        /\ \A m \in MessageArgIds, s \in SessionArgs, c \in BOOLEAN :
            Propagated(save_message_raising(redis, Message(m, s, "user", "hi", <<CsvA1>>), c, failing),
                       failing,
                       Returned(save_message(redis, Message(m, s, "user", "hi", <<CsvA1>>), c), Nil))
        /\ \A s \in SessionArgs, u \in UserIds, c \in BOOLEAN :
            Propagated(save_session_raising(redis, Session(s, u, None, <<Message("m1", "s2", "user", "hi", <<CsvA1>>)>>, 1, Now), c, failing),
                       failing,
                       Returned(save_session(redis, Session(s, u, None, <<Message("m1", "s2", "user", "hi", <<CsvA1>>)>>, 1, Now), c), Nil))

\* C24 witness: with one stored key failing, a cascading delete of a stored
\* session raises part-way, and a read of another session's record returns
IoFailureWitness ==
    \E k \in DOMAIN redis, s \in StoredIds(redis, "session"), s2 \in StoredIds(redis, "session") :
        /\ k[1] = "message"
        /\ delete_session_raising(redis, s, None, TRUE, {k}).raised
        /\ delete_session_raising(redis, s, None, TRUE, {k}).st # redis
        /\ ~get_session_raising(redis, s2, None, {k}).raised
        /\ get_message_ids_for_session_raising(redis, s, None, {k_message_index_by_session(s)}).raised

\* the records of the artifacts message m's index lists, in index order, the
\* ids skipped whose record is not stored
ListedArtifacts(st, m) ==
    LookupArtifacts(st, ArtifactIndexOf(st, m))

\* C27: get_artifacts_for_message(M, S, U) returns, to a caller who passes
\* the ownership chain, the artifacts M's artifact index lists and whose
\* records exist, in index order; it returns the empty list when the chain
\* check fails or the index is empty
ArtifactListing ==
    \A m \in StoredIds(redis, "message"), s \in SessionArgs, u \in UserArgs :
        IF get_message_with_full_ownership(redis, m, s, u) = Nil
        THEN get_artifacts_for_message(redis, m, s, u) = <<>>
        ELSE get_artifacts_for_message(redis, m, s, u) = ListedArtifacts(redis, m)

\* C28: drift guard.  Every message of a view get_complete_session(S, U)
\* returns has an id of S's message index and a stored sessionId equal to S;
\* the index entries whose record is missing or points at another session
\* are dropped, and the messages left keep their index order
DriftGuard ==
    \A s \in SessionIds, u \in UserArgs, ia \in BOOLEAN :
        get_complete_session(redis, s, u, ia, FALSE) # Nil =>
            /\ MessageIdsOf(get_complete_session(redis, s, u, ia, FALSE).messages)
                   = SelectSeq(MessageIndexOf(redis, s), LAMBDA m : WellFormedIn(redis, m, s))
            /\ \A i \in 1..Len(get_complete_session(redis, s, u, ia, FALSE).messages) :
                   get_complete_session(redis, s, u, ia, FALSE).messages[i].sessionId = s

\* C28 witness: the index of a session lists a message whose record names
\* another session, and the owner's view holds the one message left
DriftGuardWitness ==
    \E s \in SessionIds :
        /\ has_key(redis, k_session(s))
        /\ get_complete_session(redis, s, StoredOwner(redis, s), TRUE, FALSE) # Nil
        /\ Len(get_complete_session(redis, s, StoredOwner(redis, s), TRUE, FALSE).messages) = 1
        /\ \E m \in MessageIds :
            /\ InSeq(m, MessageIndexOf(redis, s))
            /\ has_key(redis, k_message(m))
            /\ redis[k_message(m)].sessionId # s

(***************************************************************************)
(* Cascading saves.                                                        *)
(***************************************************************************)
\* in the store st, every message embedded in session s is stored under s,
\* is retrievable through s and listed in s's message index, and every
\* artifact embedded in it is retrievable through it
EmbeddedStored(st, s) ==
    \A i \in 1..Len(s.messages) :
        /\ has_key(st, k_message(s.messages[i].messageId))
        /\ st[k_message(s.messages[i].messageId)].sessionId = s.sessionId
        /\ get_message(st, s.messages[i].messageId, s.sessionId) # Nil
        /\ InSeq(s.messages[i].messageId, MessageIndexOf(st, s.sessionId))
        /\ \A j \in 1..Len(s.messages[i].artifacts) :
               get_artifact(st, s.messages[i].artifacts[j].artifactId,
                            s.messages[i].messageId) # Nil

\* the stores st0 and st hold the same message and artifact keys and the
\* same message and artifact indexes
SameBelowSession(st0, st) ==
    \A k \in DOMAIN st0 \cup DOMAIN st :
        k[1] \in {"message", "artifact", "message_index:session", "artifact_index:message"} =>
            /\ k \in DOMAIN st0
            /\ k \in DOMAIN st
            /\ st0[k] = st[k]

\* C29 as claimed: after save_session(s, cascade=True) every embedded
\* message is stored with sessionId s.sessionId, retrievable by
\* get_message(m, s.sessionId) and listed in s's message index in embedded
\* order, and every embedded artifact is retrievable by get_artifact(a, m);
\* with cascade=False no message or artifact key and no message or artifact
\* index is written
CascadeSaveInEmbeddedOrder ==
    \A s \in SessionInputs :
        /\ EmbeddedStored(save_session(redis, s, TRUE), s)
        /\ SelectSeq(MessageIndexOf(save_session(redis, s, TRUE), s.sessionId),
                     LAMBDA m : InSeq(m, MessageIdsOf(s.messages)))
               = MessageIdsOf(s.messages)
        /\ SameBelowSession(redis, save_session(redis, s, FALSE))

\* the elements of seq in the order of their first places
RECURSIVE FirstPlaces(_)
FirstPlaces(seq) ==
    IF seq = <<>> THEN <<>>
    ELSE <<Head(seq)>> \o SelectSeq(FirstPlaces(Tail(seq)), LAMBDA x : x # Head(seq))

\* sessions that embed one message id twice
TwiceEmbedded ==
    {Session(id, "u1", None,
             <<Message("m1", "s1", "user", "hi", <<CsvA1>>),
               Message("m2", "s1", "assistant", "hello", <<>>),
               Message("m1", "s2", "user", "again", <<ImageA2>>)>>, 3, 0) : id \in SessionIds}

\* C29, amended: as claimed, but the embedded order holds among the ids the
\* index did not list before the save: those follow, in the order of their
\* first embedded places, the ids it listed already, which keep their places
CascadeSaveAppendsInEmbeddedOrder ==
    \A s \in SessionInputs \cup TwiceEmbedded :
        /\ EmbeddedStored(save_session(redis, s, TRUE), s)
        /\ MessageIndexOf(save_session(redis, s, TRUE), s.sessionId)
               = MessageIndexOf(redis, s.sessionId)
                   \o SelectSeq(FirstPlaces(MessageIdsOf(s.messages)),
                                LAMBDA m : ~InSeq(m, MessageIndexOf(redis, s.sessionId)))
        /\ SameBelowSession(redis, save_session(redis, s, FALSE))

\* C29 witness: a cascading save of a session with two embedded messages
\* that name another session, one of them listed before, has stored both
\* under the session saved and appended the new id behind the old one
CascadeSaveWitness ==
    /\ last.op = "save_session"
    /\ last.args[2]
    /\ Len(last.args[1].messages) = 2
    /\ last.args[1].sessionId = "s2"
    /\ redis[k_message("m1")].sessionId = "s2"
    /\ redis[k_message("m2")].sessionId = "s2"
    /\ redis[k_message_index_by_session("s2")] = <<"m2", "m1">>
    /\ get_artifact(redis, "a2", "m2") # Nil

(***************************************************************************)
(* Concurrency.                                                            *)
(***************************************************************************)
\* workers p and q have each completed a save_message, for two different
\* messages of one session
BothSaved(p, q) ==
    /\ p # q
    /\ inflight[p].pc = "done"
    /\ inflight[q].pc = "done"
    /\ inflight[p].message.sessionId = inflight[q].message.sessionId
    /\ inflight[p].message.messageId # inflight[q].message.messageId

\* the session index of the message worker w saved lists it
Listed(w) ==
    InSeq(inflight[w].message.messageId,
          MessageIndexOf(redis, inflight[w].message.sessionId))

\* C25: the lost-append race of the unlocked read-then-write of the message
\* index.  After two concurrent save_message calls for two different
\* messages of one session have completed, both records exist and the index
\* lists at least one of the two ids; it can be one only, and then the other
\* call read the index before the lost id was written to it
LostAppendRace ==
    \A p \in Workers, q \in Workers :
        BothSaved(p, q) =>
            /\ has_key(redis, k_message(inflight[p].message.messageId))
            /\ has_key(redis, k_message(inflight[q].message.messageId))
            /\ Listed(p) \/ Listed(q)
            /\ ~Listed(p) => ~InSeq(inflight[p].message.messageId, inflight[q].ids)

\* C25 witness: both calls have completed, both records exist, and only one
\* of the two ids is in the session's message index
LostAppendWitness ==
    \E p \in Workers, q \in Workers :
        /\ BothSaved(p, q)
        /\ has_key(redis, k_message(inflight[p].message.messageId))
        /\ has_key(redis, k_message(inflight[q].message.messageId))
        /\ ~Listed(p)
        /\ Listed(q)

(***************************************************************************)
(* Analysis re-attempts.                                                   *)
(***************************************************************************)
\* an analysis request is in progress
AnalysisRunning == analysis.pc \in {"enter", "push", "llm", "handle", "final"}

\* the request has ended: analyze_data returned or raised
AnalysisEnded == analysis.pc \in {"returned", "raised"}

\* at most MaxTries completions; every attempt after the first follows a
\* failed code execution and nothing else does; at the cap the result is the
\* failure response and no completion was called for it
AttemptsCapped ==
    (AnalysisRunning \/ AnalysisEnded) =>
        /\ analysis.llm_calls <= MaxTries
        /\ analysis.llm_calls <= analysis.try_number + 1
        /\ analysis.try_number <= Len(analysis.outcomes)
        /\ \A i \in 1..Len(analysis.outcomes) :
               analysis.outcomes[i].code_execution_failed <=> i <= analysis.try_number
        /\ (analysis.pc = "returned" /\ analysis.try_number = MaxTries) =>
               /\ analysis.result.code_execution_failed
               /\ analysis.llm_calls = MaxTries

\* C26: analyze_data terminates for every pattern of code-execution
\* failures: a request performs at most 3 completions, a re-attempt is
\* started only when the code execution of the previous attempt failed, and
\* at the cap the result is a failure response with code_execution_failed
\* set instead of another attempt
AnalysisTerminates == []AttemptsCapped /\ (AnalysisRunning ~> AnalysisEnded)

\* C26 witness: three attempts failed in execution and the request returned
\* the failure response after three completions
AnalysisCapWitness ==
    /\ analysis.pc = "returned"
    /\ analysis.try_number = MaxTries
    /\ analysis.llm_calls = MaxTries
    /\ Len(analysis.outcomes) = MaxTries
    /\ analysis.result.code_execution_failed

(***************************************************************************)
(* Time to live.                                                           *)
(***************************************************************************)
\* the last step was an operation of the cache layer
CacheOperated == last.op \notin {"init", "tick"}

\* the lifetime the last operation's setex calls gave: the caller's ttl, or
\* the configured default for None and 0
LastLifetime == IF last.ttl = Nil \/ last.ttl.int = 0 THEN DefaultTtl ELSE last.ttl.int

\* C30: every store write of the cache layer sets an expiry on the key it
\* writes, the caller's ttl or the configured default: every stored key has
\* an expiry ahead of the clock, and an operation resets the lifetime of
\* exactly the keys it writes, every other key keeping its value and its
\* expiry
EveryWriteSetsExpiry ==
    /\ DOMAIN expires = DOMAIN redis
    /\ \A k \in DOMAIN redis : expires[k] > clock
    /\ CacheOperated =>
           \A k \in DOMAIN redis :
               IF k \in last.keys
               THEN expires[k] = last.at + LastLifetime
               ELSE /\ k \in DOMAIN last.before
                    /\ expires[k] = last.before[k]
                    /\ redis[k] = last.store[k]

\* C30 witness: a save_message with a ttl of its own, made after the clock
\* advanced over a store written with the default: its keys expire 2
\* seconds on, a key it did not write keeps the expiry it had
TtlWitness ==
    /\ last.op = "save_message"
    /\ last.ttl = PyInt(2)
    /\ last.at > 0
    /\ \E k \in last.keys : k \in DOMAIN last.before /\ expires[k] = clock + 2
    /\ \E k \in DOMAIN redis \ last.keys : expires[k] = DefaultTtl

(***************************************************************************)
(* The listing of a user's sessions.                                       *)
(***************************************************************************)
\* the session is in the listing of its owner
InListing(session_id) ==
    \E i \in 1..Len(get_all_user_sessions(redis, StoredOwnerOf(redis, session_id))) :
        get_all_user_sessions(redis, StoredOwnerOf(redis, session_id))[i].sessionId = session_id

\* the listing of every user is the entries of the user's index with
\* numMessages > 0, in index order, and empty without an index
ListingIsFilteredIndex ==
    \A u \in UserIds :
        get_all_user_sessions(redis, u) =
            IF has_key(redis, k_session_index_by_user(u))
            THEN SelectSeq(redis[k_session_index_by_user(u)], LAMBDA i : i.numMessages > 0)
            ELSE <<>>

\* the last operation was a push_message to a session that returned the
\* message
Pushed == last.op = "push_message" /\ last.ret # Nil

\* C31: get_all_user_sessions(U) returns exactly the entries of U's session
\* index whose numMessages is greater than 0, in index order, and the empty
\* list when U has no index; a session appears in the listing as soon as one
\* message has been pushed to it and never before
ListedOncePushed ==
    /\ ListingIsFilteredIndex
    /\ Pushed => InListing(last.args[1])
    /\ \A s \in StoredIds(redis, "session") :
           InListing(s) => has_key(redis, k_message_index_by_session(s))

(***************************************************************************)
(* Messages once stored.                                                   *)
(***************************************************************************)
\* C32: once a message record exists, no operation of the services changes
\* its stored role, content or sessionId; a push_message with the id of an
\* existing message does not overwrite the record
MessageImmutable ==
    [][\A k \in DOMAIN redis :
           (k[1] = "message" /\ k \in DOMAIN redis') =>
               /\ redis'[k].role = redis[k].role
               /\ redis'[k].content = redis[k].content
               /\ redis'[k].sessionId = redis[k].sessionId]_vars


(***************************************************************************)
(* The order of the turns of an analysis that is tried again.              *)
(***************************************************************************)
\* the message the session's index lists last
LastIndexedMessage(session_id) ==
    redis[k_message(redis[k_message_index_by_session(session_id)][
              Len(redis[k_message_index_by_session(session_id)])])]

\* the pushed current message is the last of the session: a record is
\* stored for the last id of the session's message index, with the role
\* and the content given
LastTurnStored(session_id, role, content) ==
    /\ has_key(redis, k_message_index_by_session(session_id))
    /\ redis[k_message_index_by_session(session_id)] # <<>>
    /\ has_key(redis, k_message(redis[k_message_index_by_session(session_id)][
                          Len(redis[k_message_index_by_session(session_id)])]))
    /\ LastIndexedMessage(session_id).role = role
    /\ LastIndexedMessage(session_id).content = content

\* the artifact types indexed under the last message of the session
LastTurnArtifactTypes(session_id) ==
    IF has_key(redis, k_artifact_index_by_message(LastIndexedMessage(session_id).messageId))
    THEN SeqMap(LAMBDA a : redis[k_artifact(a)].type,
                redis[k_artifact_index_by_message(LastIndexedMessage(session_id).messageId)])
    ELSE <<>>

\* an attempt after a failed execution is about to call the LLM: the
\* reply of the failure is the last message of the session, a user message
\* without artifacts, and the last turn of the messages sent
FailureFedBack ==
    (analysis.pc = "llm" /\ analysis.try_number >= 1) =>
        /\ LastTurnStored(analysis.session_id, "user",
                          analysis.outcomes[analysis.try_number].reply)
        /\ LastTurnArtifactTypes(analysis.session_id) = <<>>
        /\ analysis.prompt # <<>>
        /\ analysis.prompt[Len(analysis.prompt)] =
               [role |-> "user", content |-> analysis.outcomes[analysis.try_number].reply]

\* the first attempt is about to call the LLM: its user message carries
\* the CSV artifact
DatasetOnFirstAttempt ==
    (analysis.pc = "llm" /\ analysis.try_number = 0) =>
        /\ LastTurnStored(analysis.session_id, "user", analysis.message)
        /\ LastTurnArtifactTypes(analysis.session_id) = <<"csv">>

\* every attempt after the first was started by a failed execution of the
\* code of a response that parsed: a completion that raised, and a response
\* that does not parse, end the request in the attempt that got them
NoRetryOfFailedResponse ==
    analysis.pc \notin {"idle", "raised"} =>
        /\ analysis.try_number =
               Cardinality({i \in 1..Len(analysis.outcomes) :
                               analysis.outcomes[i].code_execution_failed})
        /\ analysis.llm_calls \in {analysis.try_number, analysis.try_number + 1}
        /\ (analysis.pc \in {"enter", "push", "llm"} /\ analysis.try_number >= 1) =>
               /\ analysis.response.valid
               /\ analysis.response.code # ""

\* C33: when the execution of attempt k fails, the reply of the failure is
\* pushed to the session as a new user message and is the last turn sent to
\* the LLM in attempt k+1; the CSV artifact is attached only to the user
\* message of the first attempt; a failed or unparsable LLM response is
\* returned without a new attempt
RetryOrdering ==
    /\ FailureFedBack
    /\ DatasetOnFirstAttempt
    /\ NoRetryOfFailedResponse


(***************************************************************************)
(* The keys a push writes.                                                 *)
(***************************************************************************)
\* the key is the session record or the message index of another session
\* than session_id, or a message record the store st files under another
\* session
OfAnotherSession(st, key, session_id) ==
    \/ key[1] \in {"session", "message_index:session"} /\ key[2] # session_id
    \/ key[1] = "message" /\ key \in DOMAIN st /\ st[key].sessionId # session_id

\* C34: push_message(session_id=S1, user_id=U, message) by the owner U of
\* S1 creates or changes no message index, message record or session record
\* of another session than S1, whatever session the sessionId of the
\* Message object names
PushKeepsToItsSession ==
    [][(/\ last'.op = "push_message"
        /\ nops' = nops + 1
        /\ has_key(redis, k_session(last'.args[1]))
        /\ StoredOwnerOf(redis, last'.args[1]) = last'.args[2])
       => \A k \in DOMAIN redis \cup DOMAIN redis' :
              (OfAnotherSession(redis, k, last'.args[1])
               \/ OfAnotherSession(redis', k, last'.args[1]))
              => /\ k \in DOMAIN redis
                 /\ k \in DOMAIN redis'
                 /\ redis'[k] = redis[k]]_vars

(***************************************************************************)
(* Calls in flight.                                                        *)
(***************************************************************************)
\* no call is in flight
Quiescent == \A w \in Workers : inflight[w].pc \in {"idle", "done"}

\* the message index of the session lists a stored user message
HasUserMessage(session_id) ==
    /\ has_key(redis, k_message_index_by_session(session_id))
    /\ \E i \in 1..Len(redis[k_message_index_by_session(session_id)]) :
           /\ has_key(redis, k_message(redis[k_message_index_by_session(session_id)][i]))
           /\ redis[k_message(redis[k_message_index_by_session(session_id)][i])].role = "user"

\* C35: for a session created without a title, in every quiescent state in
\* which the session's message index contains a user message the stored
\* title is set, also when the first two user messages are pushed by two
\* concurrent push_message calls
TitleSetWhenQuiescent ==
    Quiescent =>
        \A s \in StoredIds(redis, "session") :
            HasUserMessage(s) => redis[k_session(s)].title # None


\* keys of the session are stored: its record, its message index, a
\* message record that names it, or its entry in a user index
KeysOfSession(session_id) ==
    {k \in DOMAIN redis :
        \/ k \in {k_session(session_id), k_message_index_by_session(session_id)}
        \/ k[1] = "message" /\ redis[k].sessionId = session_id
        \/ /\ k[1] = "session_index:user"
           /\ \E i \in 1..Len(redis[k]) : redis[k][i].sessionId = session_id}

\* the session is stored with the message in its index and the record of
\* the message
StoredWithMessage(session_id, message_id) ==
    /\ has_key(redis, k_session(session_id))
    /\ has_key(redis, k_message(message_id))
    /\ has_key(redis, k_message_index_by_session(session_id))
    /\ InSeq(message_id, redis[k_message_index_by_session(session_id)])

\* C36: delete_session(S, U, cascade=True) ran while a push_message to S
\* was past its ownership check; once both calls are over, S is stored with
\* the message indexed or no key of S remains, and the session update of
\* the push has not created the session record anew
DeleteWinsOverPush ==
    Quiescent =>
        \A d \in Workers :
            inflight[d].pc = "done" /\ inflight[d].op = "delete_session" =>
                \A p \in inflight[d].during :
                    /\ ~inflight[p].recreated
                    /\ \/ StoredWithMessage(inflight[d].session_id,
                                            inflight[p].message.messageId)
                       \/ KeysOfSession(inflight[d].session_id) = {}

(***************************************************************************)
(* A conversation under expiry.                                            *)
(***************************************************************************)
\* the artifact ids the artifact index of the message lists
ArtifactsListed(message_id) ==
    IF has_key(redis, k_artifact_index_by_message(message_id))
    THEN Range(redis[k_artifact_index_by_message(message_id)])
    ELSE {}

\* C37: with one time to live for every key and expiry as the only
\* removal, while a session record is unexpired every message id of its
\* message index resolves to an unexpired message record and every artifact
\* id of those messages' artifact indexes to an unexpired artifact record
NoPartialExpiry ==
    \A s \in StoredIds(redis, "session") :
        has_key(redis, k_message_index_by_session(s)) =>
            \A m \in Range(redis[k_message_index_by_session(s)]) :
                /\ has_key(redis, k_message(m))
                /\ \A a \in ArtifactsListed(m) : has_key(redis, k_artifact(a))

(***************************************************************************)
(* Pushes over a failing store.                                            *)
(***************************************************************************)
\* the store holds nothing of the message: no record, no entry of a
\* message index, no artifact index, no record of one of its artifacts
NoTraceOf(message) ==
    /\ ~has_key(redis, k_message(message.messageId))
    /\ ~has_key(redis, k_artifact_index_by_message(message.messageId))
    /\ \A k \in DOMAIN redis :
           k[1] = "message_index:session" => ~InSeq(message.messageId, redis[k])
    /\ \A a \in Range(message.artifacts) : ~has_key(redis, k_artifact(a.artifactId))

\* the record of the message, its entry in the index of the session and
\* the session update of the push are stored
AllWritten(session_id, message, now) ==
    /\ has_key(redis, k_message(message.messageId))
    /\ has_key(redis, k_message_index_by_session(session_id))
    /\ InSeq(message.messageId, redis[k_message_index_by_session(session_id)])
    /\ has_key(redis, k_session(session_id))
    /\ redis[k_session(session_id)].updatedAt = now
    /\ redis[k_session(session_id)].numMessages =
           Len(redis[k_message_index_by_session(session_id)])

\* C38: a push_message during which a store call fails returns None and
\* leaves no trace of the message in the store; a push_message that returns
\* the message has written the message record, its index entry and the
\* session update
PushAllOrNothing ==
    last.op = "push_message" =>
        /\ last.failed => (last.ret = Nil /\ NoTraceOf(last.args[3]))
        /\ last.ret # Nil => AllWritten(last.args[1], last.args[3], last.at)

(***************************************************************************)
(* Pushes with artifacts.                                                  *)
(***************************************************************************)
\* the last operation was a push of one of the three methods with a list
\* of artifacts that is not empty
PushedWithArtifacts ==
    /\ last.op \in {"push_message_with_role", "push_user_message", "push_assistant_message"}
    /\ last.ret # Nil
    /\ last.args[2] # <<>>

\* the messages get_complete_session(include_artifacts=True) shows the owner
AssembledMessages(session_id) ==
    get_complete_session(redis, session_id, StoredOwnerOf(redis, session_id), TRUE,
                         FALSE).messages

\* C39: after a push of push_user_message, push_assistant_message or
\* push_message_with_role with a list of artifacts that is not empty, for
\* either value of push_artifacts_in_message, get_complete_session
\* (include_artifacts=True) by the owner shows exactly those artifacts on
\* the message, and get_session_summary counts them
ArtifactsOfPushShown ==
    PushedWithArtifacts =>
        /\ \E i \in 1..Len(AssembledMessages(last.args[1])) :
               /\ AssembledMessages(last.args[1])[i].messageId = last.ret.messageId
               /\ AssembledMessages(last.args[1])[i].artifacts = last.args[2]
        /\ get_session_summary(redis, last.args[1],
                               StoredOwnerOf(redis, last.args[1])).numArtifacts
               = SumArtifacts(AssembledMessages(last.args[1]))
        /\ SumArtifacts(AssembledMessages(last.args[1])) >= Len(last.args[2])

====
